---- MODULE Spec2Model ----
(***************************************************************************)
(* ALIBLOG library logbook: the registry (registered_users), the presence  *)
(* ledger (log_records), the admin table, the sqlite_sequence counters,    *)
(* the QR token codec and the scan handler, as a state machine.            *)
(*                                                                         *)
(* Text values are sequences of one-character strings, so that strip(),    *)
(* split("|"), strftime and strptime are computed, not assumed.            *)
(***************************************************************************)
EXTENDS Integers, Sequences, FiniteSets, TLC

VARIABLES users, logs, admins, seq, clock, status, watch, scans, ops,
          codec, lock, born, inflight

vars == <<users, logs, admins, seq, clock, status, watch, scans, ops,
          codec, lock, born, inflight>>

\* lock is what a connection that create_account left open holds on the
\* database file: "free" (nothing), "write" (the write lock of the
\* transaction its INSERT began: sqlite3 refuses every other writer with
\* 'database is locked', readers are served) or "pending" (the lock a refused
\* commit keeps: readers are refused as well)
WritersRefused == lock # "free"

ReadersRefused == lock = "pending"

----------------------------------------------------------------------------
(* Bounds of the model                                                     *)

MaxUserId == 2
MaxDay == 1
\* operations that write (a row, a counter, the clock) in one run; a call of
\* create_time_out on its own is not counted
MaxOps == 4
\* longest field value handed to the token codec
MaxFieldLen == 2
\* longest raw text handed to the decoder
MaxRawLen == 4
\* rows of admin_accounts
MaxAdmins == 3
\* credentials typed into one verification dialog before it is closed
MaxAttempts == 2

----------------------------------------------------------------------------
(* Text helpers                                                            *)

SEP == "|"
NULL == <<"NULL">>
None == [none |-> TRUE]

GuestS == <<"G", "u", "e", "s", "t">>
StudentS == <<"S", "t", "u", "d", "e", "n", "t">>
TeacherS == <<"T", "e", "a", "c", "h", "e", "r">>

SetMax(S) == CHOOSE x \in S : \A y \in S : y <= x
SetMin(S) == CHOOSE x \in S : \A y \in S : x <= y

\* A text is a sequence of characters. An ASCII character is the string of
\* that character; a character outside ASCII is one element as well, the
\* string naming its code point ("U+00A0" is the no-break space, "U+00E9" the
\* e with acute accent).

\* the characters str.strip() removes from both ends, those str.isspace()
\* holds for: blank, \t \n \f \r, 0x0B and the separators 0x1C..0x1F of
\* ASCII, and 19 characters outside it
Whitespace ==
    {" ", "\t", "\n", "\f", "\r", "", "", "", "", "",
     "U+0085", "U+00A0", "U+1680", "U+2000", "U+2001", "U+2002", "U+2003",
     "U+2004", "U+2005", "U+2006", "U+2007", "U+2008", "U+2009", "U+200A",
     "U+2028", "U+2029", "U+202F", "U+205F", "U+3000"}

RECURSIVE LStrip(_)
LStrip(s) == IF s # <<>> /\ Head(s) \in Whitespace THEN LStrip(Tail(s)) ELSE s

RECURSIVE RStrip(_)
RStrip(s) ==
    IF s # <<>> /\ s[Len(s)] \in Whitespace
    THEN RStrip(SubSeq(s, 1, Len(s) - 1)) ELSE s

\* str.strip()
Strip(s) == RStrip(LStrip(s))

RECURSIVE SplitFrom(_, _, _)
SplitFrom(s, i, cur) ==
    IF i > Len(s) THEN <<cur>>
    ELSE IF s[i] = SEP THEN <<cur>> \o SplitFrom(s, i + 1, <<>>)
    ELSE SplitFrom(s, i + 1, Append(cur, s[i]))

\* str.split("|")
Split(s) == SplitFrom(s, 1, <<>>)

RECURSIVE SeqsUpTo(_, _)
\* the sequences over S of length 0..n
SeqsUpTo(S, n) ==
    IF n = 0 THEN {<<>>}
    ELSE LET shorter == SeqsUpTo(S, n - 1) IN
         shorter \cup {Append(t, c) : t \in {x \in shorter : Len(x) = n - 1}, c \in S}

DigitChars == <<"0", "1", "2", "3", "4", "5", "6", "7", "8", "9">>
Digit(d) == DigitChars[d + 1]
DigitVal(c) == CHOOSE d \in 0..9 : DigitChars[d + 1] = c

RECURSIVE Digits(_)
Digits(n) == IF n < 10 THEN <<Digit(n)>> ELSE Append(Digits(n \div 10), Digit(n % 10))

\* format(n, "02d")
Pad02d(n) ==
    IF n < 0 THEN <<"-">> \o Digits(0 - n)
    ELSE IF n < 10 THEN <<"0", Digit(n)>>
    ELSE Digits(n)

\* strftime("%H:%M:%S") of a time of day given in seconds since midnight
TimeStr(tod) ==
    Pad02d(tod \div 3600) \o <<":">> \o Pad02d((tod % 3600) \div 60)
        \o <<":">> \o Pad02d(tod % 60)

\* strptime(s, "%H:%M:%S"), as seconds since midnight
ParseTime(s) ==
    (DigitVal(s[1]) * 10 + DigitVal(s[2])) * 3600
        + (DigitVal(s[4]) * 10 + DigitVal(s[5])) * 60
        + (DigitVal(s[7]) * 10 + DigitVal(s[8]))

----------------------------------------------------------------------------
(* Token codec                                                             *)

\* qr_data = f"{name}|{id_number}|{department}|{user_type}"
generate_qr_code(name, id_number, department, user_type) ==
    name \o <<SEP>> \o id_number \o <<SEP>> \o department \o <<SEP>> \o user_type

\* parse_qr_data testing for too few parts only
parse_qr_data_at_least_4(qr_string) ==
    LET parts == Split(Strip(qr_string)) IN
    IF Len(parts) < 4 THEN None
    ELSE [name |-> parts[1], id_number |-> parts[2],
          department |-> parts[3], user_type |-> parts[4]]

RECURSIVE JoinFrom(_, _)
\* "|".join(parts[k:])
JoinFrom(parts, k) ==
    IF k >= Len(parts) THEN parts[k]
    ELSE parts[k] \o <<SEP>> \o JoinFrom(parts, k + 1)

\* parse_qr_data splitting at the first three separators only, split("|", 3)
parse_qr_data_maxsplit(qr_string) ==
    LET parts == Split(Strip(qr_string)) IN
    IF Len(parts) < 4 THEN None
    ELSE [name |-> parts[1], id_number |-> parts[2],
          department |-> parts[3], user_type |-> JoinFrom(parts, 4)]

\* parse_qr_data without the strip() of the scanned text
parse_qr_data_unstripped(qr_string) ==
    LET parts == Split(qr_string) IN
    IF Len(parts) # 4 THEN None
    ELSE [name |-> parts[1], id_number |-> parts[2],
          department |-> parts[3], user_type |-> parts[4]]

parse_qr_data(qr_string) ==
    LET parts == Split(Strip(qr_string)) IN
    IF Len(parts) # 4 THEN None
    ELSE [name |-> parts[1], id_number |-> parts[2],
          department |-> parts[3], user_type |-> parts[4]]

----------------------------------------------------------------------------
(* Storage layer                                                           *)

\* the rowid taken as the number of rows plus one
NextId_row_count(s, ids) == Cardinality(ids) + 1

\* rowid given by an INTEGER PRIMARY KEY AUTOINCREMENT insert
NextId(s, ids) == (IF ids = {} THEN s ELSE IF SetMax(ids) > s THEN SetMax(ids) ELSE s) + 1

verify_admin(username, password) ==
    \E a \in DOMAIN admins :
        admins[a].username = username /\ admins[a].password = password

\* check_id_exists looking at Student and Teacher rows only
check_id_exists_non_guest(id_number) ==
    \E u \in DOMAIN users :
        users[u].id_number = id_number /\ users[u].user_type # GuestS

check_id_exists(id_number) ==
    \E u \in DOMAIN users : users[u].id_number = id_number

MatchingUsers(name, id_number) ==
    {u \in DOMAIN users : users[u].name = name /\ users[u].id_number = id_number}

\* get_user_by_qr_data with the id_number condition left out of the WHERE
get_user_by_name_only(name, id_number) ==
    LET m == {u \in DOMAIN users : users[u].name = name} IN
    IF m = {} THEN None
    ELSE LET u == SetMin(m) IN
         [user_id |-> u, name |-> users[u].name, id_number |-> users[u].id_number,
          department |-> users[u].department, user_type |-> users[u].user_type]

\* first row of the table scan (rowid order), or None
get_user_by_qr_data(name, id_number) ==
    IF MatchingUsers(name, id_number) = {} THEN None
    ELSE LET u == SetMin(MatchingUsers(name, id_number)) IN
         [user_id |-> u, name |-> users[u].name, id_number |-> users[u].id_number,
          department |-> users[u].department, user_type |-> users[u].user_type]

OpenLogs(user_id) ==
    {l \in DOMAIN logs : logs[l].user_id = user_id /\ logs[l].time_out = NULL}

\* get_active_log with the NULL test inverted
get_active_log_closed(user_id) ==
    LET m == {l \in DOMAIN logs : logs[l].user_id = user_id /\ logs[l].time_out # NULL} IN
    IF m = {} THEN None
    ELSE LET l == SetMax(m) IN
         [log_id |-> l, time_in |-> logs[l].time_in, date |-> logs[l].date]

\* get_active_log with ORDER BY log_id ASC
get_active_log_lowest(user_id) ==
    IF OpenLogs(user_id) = {} THEN None
    ELSE LET l == SetMin(OpenLogs(user_id)) IN
         [log_id |-> l, time_in |-> logs[l].time_in, date |-> logs[l].date]

\* ORDER BY log_id DESC LIMIT 1
get_active_log(user_id) ==
    IF OpenLogs(user_id) = {} THEN None
    ELSE LET l == SetMax(OpenLogs(user_id)) IN
         [log_id |-> l, time_in |-> logs[l].time_in, date |-> logs[l].date]

\* DurationStr with the seconds field not reduced modulo 60
DurationStr_raw_seconds(time_in_str, time_out_str) ==
    LET duration_seconds == ParseTime(time_out_str) - ParseTime(time_in_str)
        hours == duration_seconds \div 3600
        minutes == (duration_seconds % 3600) \div 60
        seconds == duration_seconds
    IN Pad02d(hours) \o <<":">> \o Pad02d(minutes) \o <<":">> \o Pad02d(seconds)

\* f"{hours:02d}:{minutes:02d}:{seconds:02d}" of time_out - time_in
DurationStr(time_in_str, time_out_str) ==
    LET duration_seconds == ParseTime(time_out_str) - ParseTime(time_in_str)
        hours == duration_seconds \div 3600
        minutes == (duration_seconds % 3600) \div 60
        seconds == duration_seconds % 60
    IN Pad02d(hours) \o <<":">> \o Pad02d(minutes) \o <<":">> \o Pad02d(seconds)

\* the ledger after create_time_in(user_id, name, department_or_status)
create_time_in(user_id, name, department_or_status) ==
    LET log_id == NextId(seq.log_records, DOMAIN logs) IN
    [l \in DOMAIN logs \cup {log_id} |->
        IF l = log_id
        THEN [user_id |-> user_id, name |-> name,
              department_or_status |-> department_or_status,
              time_in |-> TimeStr(clock.tod), time_out |-> NULL,
              duration |-> NULL, date |-> clock.day]
        ELSE logs[l]]

\* create_time_out writing the date of the departure as well
create_time_out_sets_date(log_id) ==
    LET time_out_str == TimeStr(clock.tod) IN
    [logs EXCEPT ![log_id].time_out = time_out_str,
                 ![log_id].duration = DurationStr(logs[log_id].time_in, time_out_str),
                 ![log_id].date = clock.day]

\* the ledger after a successful create_time_out(log_id)
create_time_out(log_id) ==
    LET time_out_str == TimeStr(clock.tod) IN
    [logs EXCEPT ![log_id].time_out = time_out_str,
                 ![log_id].duration = DurationStr(logs[log_id].time_in, time_out_str)]

----------------------------------------------------------------------------
(* Reporting queries                                                       *)

AllS == <<"A", "l", "l">>

\* Python's None where a text argument is expected
NoneText == <<"None">>

UpperChars == <<"A", "B", "C", "D", "E", "F", "G", "H", "I", "J", "K", "L", "M",
                "N", "O", "P", "Q", "R", "S", "T", "U", "V", "W", "X", "Y", "Z">>
LowerChars == <<"a", "b", "c", "d", "e", "f", "g", "h", "i", "j", "k", "l", "m",
                "n", "o", "p", "q", "r", "s", "t", "u", "v", "w", "x", "y", "z">>

\* the case folding LIKE applies to ASCII letters
Lower(c) ==
    IF \E k \in 1..26 : UpperChars[k] = c
    THEN LowerChars[CHOOSE k \in 1..26 : UpperChars[k] = c]
    ELSE c

RECURSIVE Like(_, _)
\* text LIKE pattern: "%" stands for any run of characters, "_" for any one
\* character, letters match without regard to case
Like(text, pattern) ==
    IF pattern = <<>> THEN text = <<>>
    ELSE IF Head(pattern) = "%"
    THEN Like(text, Tail(pattern)) \/ (text # <<>> /\ Like(Tail(text), pattern))
    ELSE /\ text # <<>>
         /\ (Head(pattern) = "_" \/ Lower(Head(pattern)) = Lower(Head(text)))
         /\ Like(Tail(text), Tail(pattern))

\* strftime("%Y-%m-%d") of the day-th day after 2024-01-31
DateStr(day) ==
    IF day = 0 THEN <<"2", "0", "2", "4", "-", "0", "1", "-", "3", "1">>
    ELSE <<"2", "0", "2", "4", "-", "0", "2", "-">> \o Pad02d(day)

\* byte value of a character of a date
CharCode(c) == IF c = "-" THEN 45 ELSE 48 + DigitVal(c)

RECURSIVE TextLeq(_, _)
\* a <= b between TEXT values (BINARY collation: byte by byte)
TextLeq(a, b) ==
    IF a = <<>> THEN TRUE
    ELSE IF b = <<>> THEN FALSE
    ELSE IF Head(a) = Head(b) THEN TextLeq(Tail(a), Tail(b))
    ELSE CharCode(Head(a)) < CharCode(Head(b))

RECURSIVE SortDesc(_)
\* ORDER BY ... DESC
SortDesc(S) == IF S = {} THEN <<>> ELSE <<SetMax(S)>> \o SortDesc(S \ {SetMax(S)})

RECURSIVE SortAsc(_)
\* ORDER BY ... ASC
SortAsc(S) == IF S = {} THEN <<>> ELSE <<SetMin(S)>> \o SortAsc(S \ {SetMin(S)})

\* the log_ids of the rows search_logs returns, in the order it returns them
search_logs(search_term, date_from, date_to, user_type_filter, search_field) ==
    LET pattern == <<"%">> \o search_term \o <<"%">>
        \* LEFT JOIN registered_users u ON l.user_id = u.user_id
        joined(l) == logs[l].user_id \in DOMAIN users
        keep(l) ==
            /\ (search_term # NoneText /\ search_term # <<>>) =>
                  IF search_field = "name" THEN Like(logs[l].name, pattern)
                  ELSE IF search_field = "id_number"
                  THEN joined(l) /\ Like(users[logs[l].user_id].id_number, pattern)
                  ELSE IF search_field = "department"
                  THEN Like(logs[l].department_or_status, pattern)
                  ELSE TRUE
            /\ (date_from # NoneText /\ date_from # <<>>) =>
                  TextLeq(date_from, DateStr(logs[l].date))
            /\ (date_to # NoneText /\ date_to # <<>>) =>
                  TextLeq(DateStr(logs[l].date), date_to)
            /\ (user_type_filter # NoneText /\ user_type_filter # <<>>
                  /\ user_type_filter # AllS) =>
                  joined(l) /\ users[logs[l].user_id].user_type = user_type_filter
    IN SortDesc({l \in DOMAIN logs : keep(l)})

\* the dashboard's Search button: the typed values as handed to search_logs
AdminDashboard_search_logs(typed_term, search_field, user_type, typed_from, typed_to) ==
    search_logs(IF Strip(typed_term) # <<>> THEN Strip(typed_term) ELSE NoneText,
                IF typed_from # <<>> THEN typed_from ELSE NoneText,
                IF typed_to # <<>> THEN typed_to ELSE NoneText,
                user_type, search_field)

\* what the dashboard shows for a missing time_out or duration
DashS == <<"-", "-", "-">>

\* a row of log_records as get_today_logs returns it
TodayRow(l) ==
    [log_id |-> l, name |-> logs[l].name,
     department_or_status |-> logs[l].department_or_status,
     time_in |-> logs[l].time_in,
     time_out |-> IF logs[l].time_out # NULL THEN logs[l].time_out ELSE DashS,
     duration |-> IF logs[l].duration # NULL THEN logs[l].duration ELSE DashS,
     date |-> DateStr(logs[l].date)]

\* get_today_logs with ORDER BY log_id ASC
get_today_logs_ascending ==
    LET today == DateStr(clock.day)
        ids == SortAsc({l \in DOMAIN logs : DateStr(logs[l].date) = today})
    IN [k \in 1..Len(ids) |-> TodayRow(ids[k])]

\* WHERE date = today ORDER BY log_id DESC
get_today_logs ==
    LET today == DateStr(clock.day)
        ids == SortDesc({l \in DOMAIN logs : DateStr(logs[l].date) = today})
    IN [k \in 1..Len(ids) |-> TodayRow(ids[k])]

----------------------------------------------------------------------------
(* Inputs offered to the handlers                                          *)

UserTypes == {StudentS, TeacherS, GuestS}

\* what the registration form is submitted with (the last component tells
\* whether the category was picked after the entries were filled): a student
\* and a teacher typing the same id, a student typing the guest sentinel, a
\* form switched from guest to student with nothing typed, guests with equal
\* and with different names, a name holding the separator, and one submission
\* per guard of validate_input
RegistrationForms ==
    {<<<<"a">>, <<"1">>, <<"d">>, <<"9">>, StudentS, FALSE>>,
     <<<<" ", "b">>, <<"1", " ">>, <<"d">>, <<"9">>, TeacherS, FALSE>>,
     <<<<"a">>, GuestS, <<"d">>, <<"9">>, StudentS, FALSE>>,
     <<<<"a">>, GuestS, GuestS, <<"9">>, StudentS, TRUE>>,
     <<<<"a">>, <<"1">>, <<"d">>, <<"9">>, GuestS, FALSE>>,
     <<<<"b">>, <<>>, <<>>, <<" ", "9">>, GuestS, FALSE>>,
     <<<<"a", "|">>, <<>>, <<>>, <<"9">>, GuestS, FALSE>>,
     <<<<"\t">>, <<"1">>, <<"d">>, <<"9">>, StudentS, FALSE>>,
     <<<<"a">>, <<>>, <<"d">>, <<"9">>, StudentS, FALSE>>,
     <<<<"a">>, <<"1">>, <<" ">>, <<"9">>, TeacherS, FALSE>>,
     <<<<"a">>, <<"1">>, <<"d">>, <<>>, StudentS, FALSE>>,
     <<<<"a">>, <<"1">>, <<"d">>, <<" ">>, GuestS, FALSE>>}

\* the token printed for a stored identity
TokenOf(u) ==
    generate_qr_code(users[u].name, users[u].id_number,
                     users[u].department, users[u].user_type)

\* the same name and id with other affiliation and category fields, as typed
\* into the input field with a blank before it and the line end after it
ForgedTokenOf(u) ==
    <<" ">> \o generate_qr_code(users[u].name, users[u].id_number, <<"x">>,
                  IF users[u].user_type = GuestS THEN StudentS ELSE GuestS)
        \o <<"\n">>

MalformedInputs ==
    {<<>>, <<"\t", " ">>, <<"a", "|", "1", "|", "d">>,
     generate_qr_code(<<"a">>, <<"1">>, <<"d">>, StudentS) \o <<"|", "x">>}

ScanInputs ==
    MalformedInputs
        \cup {generate_qr_code(<<"a">>, <<"7">>, <<"d">>, StudentS)}
        \cup {TokenOf(u) : u \in DOMAIN users}
        \cup {ForgedTokenOf(u) : u \in DOMAIN users}
        \cup {watch.token}

TablePk == [registered_users |-> "user_id", log_records |-> "log_id",
            admin_accounts |-> "admin_id"]
TableNames == DOMAIN TablePk

TimesOfDay == {32400, 32490}

----------------------------------------------------------------------------
(* State                                                                   *)

NoWatch == [uid |-> 0, token |-> <<>>, gone |-> FALSE, run |-> <<>>]

\* the codec is not being exercised on its own
NoCodec == [stage |-> "idle", fields |-> <<>>, token |-> <<>>, parsed |-> None]

\* the stations working on the same database file
Stations == {1, 2}

\* the station at the entrance, with the registration and the scanner
\* window: one program, which runs one handler at a time
Desk == 1

\* the station with the admin panel
Panel == 2

\* no station is between the check and the write of an operation
NoInflight == [s \in Stations |-> [kind |-> "idle"]]

\* the rows of log_records in the order of their INSERTs, once the ledger
\* has become newLogs
BornAfter(newLogs) ==
    SelectSeq(born, LAMBDA l : l \in DOMAIN newLogs)
        \o SortAsc(DOMAIN newLogs \ DOMAIN logs)

\* what the window shows after an operation: its outcome, the rows it names,
\* the category it reports and (for a scan) the category the token carried
Report(op, outcome, uid, log_id, user_type, token_type) ==
    [op |-> op, outcome |-> outcome, uid |-> uid, log_id |-> log_id,
     user_type |-> user_type, token_type |-> token_type]

\* initialize_database on a new file: empty tables and the default admin; the
\* program is started at any time of the first day
Init ==
    /\ users = <<>>
    /\ logs = <<>>
    /\ admins = (1 :> [username |-> <<"a", "d", "m", "i", "n">>,
                       password |-> <<"a", "d", "m", "i", "n", "1", "2", "3">>])
    /\ seq = [registered_users |-> 0, log_records |-> 0, admin_accounts |-> 1]
    /\ clock \in {[day |-> 0, tod |-> t] : t \in TimesOfDay}
    /\ status = Report("init", "ok", 0, 0, <<>>, <<>>)
    /\ watch = NoWatch
    /\ scans = <<>>
    /\ ops = 0
    /\ codec = NoCodec
    /\ lock = "free"
    /\ born = <<>>
    /\ inflight = NoInflight

----------------------------------------------------------------------------
(* Registration                                                            *)

\* what the callback of the category buttons leaves in the ID (or department)
\* entry that held `held`: "Guest" for a guest; for the others the entry is
\* emptied when it held "Guest" and is left alone otherwise
update_fields_based_on_type(user_type, held) ==
    IF user_type = GuestS THEN GuestS
    ELSE IF held = GuestS THEN <<>>
    ELSE held

\* the ID (or department) entry as register_user reads it: the entries of a
\* guest are hidden, so they hold what the callback set; those of a student
\* or teacher hold what the callback left of `entry` when the category was
\* picked last, and `entry` itself when it was typed after the category
EntryAtSubmit(user_type, entry, picked_last) ==
    IF user_type = GuestS \/ picked_last
    THEN update_fields_based_on_type(user_type, entry)
    ELSE entry

\* validate_input without the duplicate-id lookup
validate_input_no_lookup(name, id_number, department, contact_number, user_type) ==
    IF name = <<>> THEN "ValidationError"
    ELSE IF user_type # GuestS /\ id_number = <<>> THEN "ValidationError"
    ELSE IF user_type # GuestS /\ department = <<>> THEN "ValidationError"
    ELSE IF contact_number = <<>> THEN "ValidationError"
    ELSE "ok"

\* validate_input without the contact number guard
validate_input_no_contact(name, id_number, department, contact_number, user_type) ==
    IF name = <<>> THEN "ValidationError"
    ELSE IF user_type # GuestS /\ id_number = <<>> THEN "ValidationError"
    ELSE IF user_type # GuestS /\ department = <<>> THEN "ValidationError"
    ELSE IF user_type # GuestS /\ ReadersRefused THEN "OperationalError"
    ELSE IF user_type # GuestS /\ check_id_exists(id_number) THEN "DuplicateExternalId"
    ELSE "ok"

validate_input(name, id_number, department, contact_number, user_type) ==
    IF name = <<>> THEN "ValidationError"
    ELSE IF user_type # GuestS /\ id_number = <<>> THEN "ValidationError"
    ELSE IF user_type # GuestS /\ department = <<>> THEN "ValidationError"
    ELSE IF user_type # GuestS /\ ReadersRefused THEN "OperationalError"
    ELSE IF user_type # GuestS /\ check_id_exists(id_number) THEN "DuplicateExternalId"
    ELSE IF contact_number = <<>> THEN "ValidationError"
    ELSE "ok"

\* the path generate_qr_code returns for the image it has written
QrPath == <<"q", "r">>

register_user(rawName, rawId, rawDept, rawContact, user_type, picked_last, qr_ok) ==
    LET name == Strip(rawName)
        id_number == Strip(EntryAtSubmit(user_type, rawId, picked_last))
        department == Strip(EntryAtSubmit(user_type, rawDept, picked_last))
        contact_number == Strip(rawContact)
        checked == validate_input(name, id_number, department, contact_number, user_type)
        \* generate_qr_code returns the path of the image, or None
        qr_path == IF qr_ok THEN QrPath ELSE NoneText
        \* DatabaseManager.register_user returns None when the INSERT raises
        outcome == IF checked # "ok" THEN checked
                   ELSE IF qr_path = NoneText THEN "QrError"
                   ELSE IF WritersRefused THEN "DatabaseError"
                   ELSE "ok"
        user_id == NextId(seq.registered_users, DOMAIN users)
        qr_data == generate_qr_code(name, id_number, department, user_type)
    IN
    /\ ops < MaxOps
    /\ outcome = "ok" => user_id <= MaxUserId
    /\ IF outcome = "ok"
       THEN /\ users' = [u \in DOMAIN users \cup {user_id} |->
                            IF u = user_id
                            THEN [name |-> name, id_number |-> id_number,
                                  department |-> department,
                                  contact_number |-> contact_number,
                                  user_type |-> user_type]
                            ELSE users[u]]
            /\ seq' = [seq EXCEPT !.registered_users = user_id]
            /\ scans' = [u \in DOMAIN users \cup {user_id} |->
                            IF u = user_id THEN 0 ELSE scans[u]]
            /\ watch' = [uid |-> user_id, token |-> qr_data, gone |-> FALSE, run |-> <<>>]
            /\ status' = Report("register", outcome, user_id, 0, user_type, <<>>)
       ELSE /\ UNCHANGED <<users, seq, scans>>
            /\ watch' = NoWatch
            /\ status' = Report("register", outcome, 0, 0, user_type, <<>>)
    /\ ops' = IF outcome = "ok" THEN ops + 1 ELSE ops
    /\ UNCHANGED <<logs, admins, clock, codec, lock,
                 born, inflight>>

----------------------------------------------------------------------------
(* Scanning                                                                *)

ScanOutcome(outcome, newLogs, newSeq, uid, log_id, name, id_number, department, user_type) ==
    [outcome |-> outcome, logs |-> newLogs, seq |-> newSeq, uid |-> uid,
     log_id |-> log_id, name |-> name, id_number |-> id_number,
     department |-> department, user_type |-> user_type]

\* the category field of the scanned text, when it has four fields
TokenType(qr_input) ==
    IF parse_qr_data(Strip(qr_input)) = None THEN <<>>
    ELSE parse_qr_data(Strip(qr_input)).user_type

\* process_qr_scan taking the affiliation and the category from the token
process_qr_scan_token_fields(qr_input) ==
    LET qr_data == Strip(qr_input)
        parsed_data == parse_qr_data(qr_data)
        user == get_user_by_qr_data(parsed_data.name, parsed_data.id_number)
        active_log == get_active_log(user.user_id)
        new_log_id == NextId(seq.log_records, DOMAIN logs)
    IN
    IF qr_data = <<>>
    THEN ScanOutcome("NoData", logs, seq, 0, 0, <<>>, <<>>, <<>>, <<>>)
    ELSE IF parsed_data = None
    THEN ScanOutcome("InvalidFormat", logs, seq, 0, 0, <<>>, <<>>, <<>>, <<>>)
    ELSE IF ReadersRefused
    THEN ScanOutcome("OperationalError", logs, seq, 0, 0,
                     parsed_data.name, parsed_data.id_number, <<>>, <<>>)
    ELSE IF user = None
    THEN ScanOutcome("UnknownIdentity", logs, seq, 0, 0,
                     parsed_data.name, parsed_data.id_number, <<>>, <<>>)
    ELSE IF active_log # None
    THEN IF active_log.log_id \in DOMAIN logs /\ ~WritersRefused
         THEN ScanOutcome("Departure", create_time_out(active_log.log_id), seq,
                          user.user_id, active_log.log_id, user.name,
                          user.id_number, user.department, user.user_type)
         ELSE ScanOutcome("LedgerError", logs, seq, user.user_id, active_log.log_id,
                          user.name, user.id_number, user.department, user.user_type)
    ELSE IF WritersRefused
    THEN ScanOutcome("LedgerError", logs, seq, user.user_id, 0,
                     user.name, user.id_number, user.department, user.user_type)
    ELSE ScanOutcome("Arrival",
                     create_time_in(user.user_id, user.name, parsed_data.department),
                     [seq EXCEPT !.log_records = new_log_id],
                     user.user_id, new_log_id, user.name,
                     user.id_number, parsed_data.department, parsed_data.user_type)

\* what process_qr_scan reports and writes for the text in the input field
process_qr_scan(qr_input) ==
    LET qr_data == Strip(qr_input)
        parsed_data == parse_qr_data(qr_data)
        user == get_user_by_qr_data(parsed_data.name, parsed_data.id_number)
        active_log == get_active_log(user.user_id)
        new_log_id == NextId(seq.log_records, DOMAIN logs)
    IN
    IF qr_data = <<>>
    THEN ScanOutcome("NoData", logs, seq, 0, 0, <<>>, <<>>, <<>>, <<>>)
    ELSE IF parsed_data = None
    THEN ScanOutcome("InvalidFormat", logs, seq, 0, 0, <<>>, <<>>, <<>>, <<>>)
    ELSE IF ReadersRefused
    THEN ScanOutcome("OperationalError", logs, seq, 0, 0,
                     parsed_data.name, parsed_data.id_number, <<>>, <<>>)
    ELSE IF user = None
    THEN ScanOutcome("UnknownIdentity", logs, seq, 0, 0,
                     parsed_data.name, parsed_data.id_number, <<>>, <<>>)
    ELSE IF active_log # None
    THEN IF active_log.log_id \in DOMAIN logs /\ ~WritersRefused
         THEN ScanOutcome("Departure", create_time_out(active_log.log_id), seq,
                          user.user_id, active_log.log_id, user.name,
                          user.id_number, user.department, user.user_type)
         ELSE ScanOutcome("LedgerError", logs, seq, user.user_id, active_log.log_id,
                          user.name, user.id_number, user.department, user.user_type)
    ELSE IF WritersRefused
    THEN ScanOutcome("LedgerError", logs, seq, user.user_id, 0,
                     user.name, user.id_number, user.department, user.user_type)
    ELSE ScanOutcome("Arrival",
                     create_time_in(user.user_id, user.name, user.department),
                     [seq EXCEPT !.log_records = new_log_id],
                     user.user_id, new_log_id, user.name,
                     user.id_number, user.department, user.user_type)

Succeeded(outcome) == outcome \in {"Arrival", "Departure"}

Scan(qr_input) ==
    LET r == process_qr_scan(qr_input) IN
    /\ ops < MaxOps
    /\ logs' = r.logs
    /\ seq' = r.seq
    /\ status' = Report("scan", r.outcome, r.uid, r.log_id, r.user_type,
                        TokenType(qr_input))
    /\ scans' = [u \in DOMAIN users |->
                    IF Succeeded(r.outcome) /\ r.name = users[u].name
                        /\ r.id_number = users[u].id_number
                    THEN scans[u] + 1 ELSE scans[u]]
    /\ watch' = IF watch.token # <<>> /\ Strip(qr_input) = watch.token /\ Len(watch.run) < 3
                THEN [watch EXCEPT !.run = Append(watch.run, r.outcome)]
                ELSE NoWatch
    /\ ops' = IF Succeeded(r.outcome) THEN ops + 1 ELSE ops
    /\ born' = BornAfter(r.logs)
    /\ UNCHANGED <<users, admins, clock, codec, lock, inflight>>

----------------------------------------------------------------------------
(* Administrative maintenance                                              *)

\* delete_user without the DELETE FROM log_records
delete_user_no_cascade(user_id) ==
    LET existed == user_id \in DOMAIN users IN
    /\ ops < MaxOps
    /\ IF WritersRefused
       THEN /\ status' = Report("delete", "DatabaseError", user_id, 0, <<>>, <<>>)
            /\ watch' = NoWatch
            /\ UNCHANGED <<users, logs, scans, ops, born>>
       ELSE /\ ops' = IF existed THEN ops + 1 ELSE ops
            /\ logs' = logs
            /\ users' = [u \in DOMAIN users \ {user_id} |-> users[u]]
            /\ scans' = [u \in DOMAIN users \ {user_id} |-> scans[u]]
            /\ status' = Report("delete", "ok", user_id, 0, <<>>, <<>>)
            /\ watch' = IF existed /\ watch.uid = user_id /\ watch.run = <<>>
                        THEN [watch EXCEPT !.uid = 0, !.gone = TRUE]
                        ELSE NoWatch
            /\ born' = BornAfter(logs')
    /\ UNCHANGED <<admins, seq, clock, codec, lock, inflight>>

\* delete_user deleting the closed rows of the user only
delete_user_keeps_open(user_id) ==
    LET existed == user_id \in DOMAIN users IN
    /\ ops < MaxOps
    /\ IF WritersRefused
       THEN /\ status' = Report("delete", "DatabaseError", user_id, 0, <<>>, <<>>)
            /\ watch' = NoWatch
            /\ UNCHANGED <<users, logs, scans, ops, born>>
       ELSE /\ ops' = IF existed THEN ops + 1 ELSE ops
            /\ logs' = [l \in {k \in DOMAIN logs : logs[k].user_id # user_id
                                                    \/ logs[k].time_out = NULL} |-> logs[l]]
            /\ users' = [u \in DOMAIN users \ {user_id} |-> users[u]]
            /\ scans' = [u \in DOMAIN users \ {user_id} |-> scans[u]]
            /\ status' = Report("delete", "ok", user_id, 0, <<>>, <<>>)
            /\ watch' = IF existed /\ watch.uid = user_id /\ watch.run = <<>>
                        THEN [watch EXCEPT !.uid = 0, !.gone = TRUE]
                        ELSE NoWatch
            /\ born' = BornAfter(logs')
    /\ UNCHANGED <<admins, seq, clock, codec, lock, inflight>>

delete_user(user_id) ==
    LET existed == user_id \in DOMAIN users IN
    /\ ops < MaxOps
    /\ IF WritersRefused
       THEN /\ status' = Report("delete", "DatabaseError", user_id, 0, <<>>, <<>>)
            /\ watch' = NoWatch
            /\ UNCHANGED <<users, logs, scans, ops, born>>
       ELSE /\ ops' = IF existed THEN ops + 1 ELSE ops
            /\ logs' = [l \in {k \in DOMAIN logs : logs[k].user_id # user_id} |-> logs[l]]
            /\ users' = [u \in DOMAIN users \ {user_id} |-> users[u]]
            /\ scans' = [u \in DOMAIN users \ {user_id} |-> scans[u]]
            /\ status' = Report("delete", "ok", user_id, 0, <<>>, <<>>)
            /\ watch' = IF existed /\ watch.uid = user_id /\ watch.run = <<>>
                        THEN [watch EXCEPT !.uid = 0, !.gone = TRUE]
                        ELSE NoWatch
            /\ born' = BornAfter(logs')
    /\ UNCHANGED <<admins, seq, clock, codec, lock, inflight>>

\* what the admin panel shows after a reset: the table it was applied to, and
\* whether reset_autoincrement returned True
ResetReport(table_name, ok) ==
    [op |-> "reset", outcome |-> IF ok THEN "ok" ELSE "DatabaseError", uid |-> 0,
     log_id |-> 0, user_type |-> <<>>, token_type |-> <<>>, table |-> table_name]

TableIds(table_name) ==
    IF table_name = "registered_users" THEN DOMAIN users
    ELSE IF table_name = "log_records" THEN DOMAIN logs
    ELSE DOMAIN admins

\* SELECT MAX(pk) FROM table, with 0 for an empty table
MaxPk(table_name) ==
    IF TableIds(table_name) = {} THEN 0 ELSE SetMax(TableIds(table_name))

\* the write of reset_autoincrement touching sqlite_sequence only when the
\* table was empty
sqlite_sequence_write_empty_only(table_name, max_id) ==
    [seq EXCEPT ![table_name] = IF max_id = 0 THEN 0 ELSE @]

\* the write of reset_autoincrement: the entry of the table is deleted (0
\* here) when max_id is 0 and set to max_id otherwise
sqlite_sequence_write(table_name, max_id) ==
    [seq EXCEPT ![table_name] = max_id]

\* reset_autoincrement run by the only program working on the database file:
\* nothing is written between its SELECT MAX and its write
reset_autoincrement(table_name) ==
    LET max_id == MaxPk(table_name) IN
    /\ ops < MaxOps
    /\ IF WritersRefused
       THEN /\ status' = ResetReport(table_name, FALSE)
            /\ UNCHANGED <<seq, ops>>
       ELSE /\ ops' = IF seq[table_name] # max_id THEN ops + 1 ELSE ops
            /\ seq' = sqlite_sequence_write(table_name, max_id)
            /\ status' = ResetReport(table_name, TRUE)
    /\ watch' = NoWatch
    /\ UNCHANGED <<users, logs, admins, clock, scans, codec, lock,
                 born, inflight>>

\* the wall clock read by datetime.now() moves on
Tick ==
    /\ ops < MaxOps
    /\ ops' = ops + 1
    /\ \E d \in 0..MaxDay, t \in TimesOfDay :
          /\ d > clock.day \/ (d = clock.day /\ t > clock.tod)
          /\ clock' = [day |-> d, tod |-> t]
    /\ UNCHANGED <<users, logs, admins, seq, status, watch, scans, codec, lock,
                 born, inflight>>

----------------------------------------------------------------------------

RegisterStep ==
    \E f \in RegistrationForms, qr_ok \in BOOLEAN :
        register_user(f[1], f[2], f[3], f[4], f[5], f[6], qr_ok)

ScanStep == \E q \in ScanInputs : Scan(q)

DeleteStep == \E u \in 1..MaxUserId : delete_user(u)

ResetStep == \E t \in TableNames : reset_autoincrement(t)

Next == RegisterStep \/ ScanStep \/ DeleteStep \/ ResetStep \/ Tick

Spec == Init /\ [][Next]_vars

\* the program started on the database file an earlier run left behind: a
\* student who came and went, and a guest who is still inside
InitPopulated ==
    /\ users = <<[name |-> <<"a">>, id_number |-> <<"1">>, department |-> <<"d">>,
                  contact_number |-> <<"9">>, user_type |-> StudentS],
                 [name |-> <<"b">>, id_number |-> GuestS, department |-> GuestS,
                  contact_number |-> <<"9">>, user_type |-> GuestS]>>
    /\ logs = <<[user_id |-> 1, name |-> <<"a">>, department_or_status |-> <<"d">>,
                 time_in |-> TimeStr(32400), time_out |-> TimeStr(32490),
                 duration |-> DurationStr(TimeStr(32400), TimeStr(32490)),
                 date |-> 0],
                [user_id |-> 2, name |-> <<"b">>, department_or_status |-> GuestS,
                 time_in |-> TimeStr(32490), time_out |-> NULL,
                 duration |-> NULL, date |-> 0]>>
    /\ admins = (1 :> [username |-> <<"a", "d", "m", "i", "n">>,
                       password |-> <<"a", "d", "m", "i", "n", "1", "2", "3">>])
    /\ seq = [registered_users |-> 2, log_records |-> 2, admin_accounts |-> 1]
    /\ clock = [day |-> 0, tod |-> 32490]
    /\ status = Report("init", "ok", 0, 0, <<>>, <<>>)
    /\ watch = NoWatch
    /\ scans = <<2, 1>>
    /\ ops = 0
    /\ codec = NoCodec
    /\ lock = "free"
    /\ born = <<1, 2>>
    /\ inflight = NoInflight

SpecRecycle == InitPopulated /\ [][Next]_vars

----------------------------------------------------------------------------
(* The ledger functions as calls that may fail: a write raises              *)
(* sqlite3.Error when the database cannot be written (fault) or when       *)
(* another connection holds its write lock                                 *)

\* create_time_out(log_id) called while nothing else writes: False and
\* nothing written when the row is gone or the UPDATE raises
create_time_out_call(log_id, fault) ==
    IF log_id \notin DOMAIN logs THEN [ok |-> FALSE, logs |-> logs]
    ELSE IF fault \/ WritersRefused THEN [ok |-> FALSE, logs |-> logs]
    ELSE [ok |-> TRUE, logs |-> create_time_out(log_id)]

\* create_time_in refusing a second row with time_out NULL for a user
create_time_in_call_one_open(user_id, name, department_or_status, fault) ==
    IF fault \/ WritersRefused \/ OpenLogs(user_id) # {}
    THEN [log_id |-> 0, logs |-> logs, seq |-> seq]
    ELSE [log_id |-> NextId(seq.log_records, DOMAIN logs),
          logs |-> create_time_in(user_id, name, department_or_status),
          seq |-> [seq EXCEPT !.log_records = NextId(seq.log_records, DOMAIN logs)]]

\* create_time_in as a call: None (0 here) and nothing written when the
\* INSERT raises
create_time_in_call(user_id, name, department_or_status, fault) ==
    IF fault \/ WritersRefused THEN [log_id |-> 0, logs |-> logs, seq |-> seq]
    ELSE [log_id |-> NextId(seq.log_records, DOMAIN logs),
          logs |-> create_time_in(user_id, name, department_or_status),
          seq |-> [seq EXCEPT !.log_records = NextId(seq.log_records, DOMAIN logs)]]


----------------------------------------------------------------------------
(* The ledger functions of DatabaseManager called on their own, besides    *)
(* the windows' operations                                                 *)

\* a call of create_time_out(log_id) for any log_id; its SELECT of time_in
\* stands before the try block, so a database that refuses readers makes the
\* call raise
CallCreateTimeOut(log_id) ==
    LET out == create_time_out_call(log_id, FALSE) IN
    /\ logs' = out.logs
    /\ status' = Report("close",
                        IF ReadersRefused THEN "OperationalError"
                        ELSE IF out.ok THEN "ok" ELSE "LedgerError",
                        0, log_id, <<>>, <<>>)
    /\ watch' = NoWatch
    /\ UNCHANGED <<users, admins, seq, clock, scans, ops, codec, lock,
                 born, inflight>>

\* a call of create_time_in for a stored identity, with its name and
\* department as the scanner passes them
CallCreateTimeIn(user_id) ==
    LET in == create_time_in_call(user_id, users[user_id].name,
                                  users[user_id].department, FALSE) IN
    /\ ops < MaxOps
    /\ ops' = IF in.log_id # 0 THEN ops + 1 ELSE ops
    /\ logs' = in.logs
    /\ seq' = in.seq
    /\ status' = Report("open", IF in.log_id # 0 THEN "ok" ELSE "LedgerError",
                        user_id, in.log_id, <<>>, <<>>)
    /\ watch' = NoWatch
    /\ born' = BornAfter(in.logs)
    /\ UNCHANGED <<users, admins, clock, scans, codec, lock, inflight>>

CloseStep == \E l \in 1..MaxOps : CallCreateTimeOut(l)

OpenStep == \E u \in DOMAIN users : CallCreateTimeIn(u)

ApiNext == Next \/ CloseStep \/ OpenStep

SpecApi == Init /\ [][ApiNext]_vars

\* a scan of the token issued to a stored identity
TokenScanStep == \E u \in DOMAIN users : Scan(TokenOf(u))

\* the operations that close visits, with registration, deletion, reset and
\* the clock around them
CloseNext ==
    RegisterStep \/ DeleteStep \/ ResetStep \/ Tick \/ TokenScanStep \/ CloseStep

SpecClose == Init /\ [][CloseNext]_vars

\* the ledger functions alone, with registration, deletion, reset and the
\* clock around them
LedgerNext ==
    RegisterStep \/ DeleteStep \/ ResetStep \/ Tick \/ CloseStep \/ OpenStep

SpecLedger == Init /\ [][LedgerNext]_vars

----------------------------------------------------------------------------
(* Two stations on one database file. Every call of DatabaseManager opens  *)
(* its own connection and commits on its own, so between the lookup a      *)
(* handler makes and the INSERT or UPDATE that follows it the other        *)
(* station's calls may run.                                                *)

\* DatabaseManager.register_user refusing an id_number a Student or Teacher
\* row holds
DatabaseManager_register_user_unique(name, id_number, department, user_type, contact_number, fault) ==
    IF fault \/ WritersRefused \/ (user_type # GuestS /\ check_id_exists(id_number))
    THEN [user_id |-> 0, users |-> users, seq |-> seq]
    ELSE LET user_id == NextId(seq.registered_users, DOMAIN users) IN
         [user_id |-> user_id,
          users |-> [u \in DOMAIN users \cup {user_id} |->
                        IF u = user_id
                        THEN [name |-> name, id_number |-> id_number,
                              department |-> department,
                              contact_number |-> contact_number,
                              user_type |-> user_type]
                        ELSE users[u]],
          seq |-> [seq EXCEPT !.registered_users = user_id]]

\* DatabaseManager.register_user: the INSERT and the new user_id, or None
\* (0 here) and nothing written when the INSERT raises
DatabaseManager_register_user(name, id_number, department, user_type, contact_number, fault) ==
    IF fault \/ WritersRefused THEN [user_id |-> 0, users |-> users, seq |-> seq]
    ELSE LET user_id == NextId(seq.registered_users, DOMAIN users) IN
         [user_id |-> user_id,
          users |-> [u \in DOMAIN users \cup {user_id} |->
                        IF u = user_id
                        THEN [name |-> name, id_number |-> id_number,
                              department |-> department,
                              contact_number |-> contact_number,
                              user_type |-> user_type]
                        ELSE users[u]],
          seq |-> [seq EXCEPT !.registered_users = user_id]]

\* RegistrationWindow.register_user up to and including the QR image:
\* validate_input, then generate_qr_code, which returns None when it fails
RegisterCheck(s, rawName, rawId, rawDept, rawContact, user_type, picked_last, qr_ok) ==
    LET name == Strip(rawName)
        id_number == Strip(EntryAtSubmit(user_type, rawId, picked_last))
        department == Strip(EntryAtSubmit(user_type, rawDept, picked_last))
        contact_number == Strip(rawContact)
        checked == validate_input(name, id_number, department, contact_number, user_type)
        \* generate_qr_code returns the path of the image, or None
        qr_path == IF qr_ok THEN QrPath ELSE NoneText
        outcome == IF checked # "ok" THEN checked
                   ELSE IF qr_path = NoneText THEN "QrError" ELSE "ok"
    IN
    /\ inflight[s].kind = "idle"
    /\ ops < MaxOps
    /\ IF outcome = "ok"
       THEN /\ inflight' = [inflight EXCEPT ![s] =
                              [kind |-> "register", name |-> name,
                               id_number |-> id_number, department |-> department,
                               contact_number |-> contact_number,
                               user_type |-> user_type, qr_path |-> qr_path]]
            /\ UNCHANGED status
       ELSE /\ status' = Report("register", outcome, 0, 0, user_type, <<>>)
            /\ UNCHANGED inflight
    /\ watch' = NoWatch
    /\ UNCHANGED <<users, logs, admins, seq, clock, scans, ops, codec, lock, born>>

\* RegistrationWindow.register_user from the call of
\* DatabaseManager.register_user on
RegisterInsert(s, fault) ==
    LET f == inflight[s]
        r == DatabaseManager_register_user(f.name, f.id_number, f.department,
                                           f.user_type, f.contact_number, fault)
    IN
    /\ f.kind = "register"
    /\ r.user_id <= MaxUserId
    /\ users' = r.users
    /\ seq' = r.seq
    /\ scans' = [u \in DOMAIN r.users |-> IF u \in DOMAIN users THEN scans[u] ELSE 0]
    /\ status' = Report("register", IF r.user_id # 0 THEN "ok" ELSE "DatabaseError",
                        r.user_id, 0, f.user_type, <<>>)
    /\ ops' = IF r.user_id # 0 THEN ops + 1 ELSE ops
    /\ inflight' = [inflight EXCEPT ![s] = [kind |-> "idle"]]
    /\ watch' = NoWatch
    /\ UNCHANGED <<logs, admins, clock, codec, lock, born>>

\* process_qr_scan up to and including get_user_by_qr_data, at station s
ScanFind(s, qr_input) ==
    LET qr_data == Strip(qr_input)
        parsed_data == parse_qr_data(qr_data)
        user == get_user_by_qr_data(parsed_data.name, parsed_data.id_number)
        outcome == IF qr_data = <<>> THEN "NoData"
                   ELSE IF parsed_data = None THEN "InvalidFormat"
                   ELSE IF ReadersRefused THEN "OperationalError"
                   ELSE IF user = None THEN "UnknownIdentity"
                   ELSE "found"
    IN
    /\ inflight[s].kind = "idle"
    /\ ops < MaxOps
    /\ IF outcome = "found"
       THEN /\ inflight' = [inflight EXCEPT ![s] =
                              [kind |-> "found", qr_input |-> qr_input, user |-> user]]
            /\ UNCHANGED status
       ELSE /\ status' = Report("scan", outcome, 0, 0, <<>>, TokenType(qr_input))
            /\ UNCHANGED inflight
    /\ watch' = NoWatch
    /\ UNCHANGED <<users, logs, admins, seq, clock, scans, ops, codec, lock, born>>

\* the call of get_active_log in process_qr_scan, at station s
ScanActiveLog(s) ==
    LET f == inflight[s] IN
    /\ f.kind = "found"
    /\ IF ReadersRefused
       THEN /\ inflight' = [inflight EXCEPT ![s] = [kind |-> "idle"]]
            /\ status' = Report("scan", "OperationalError", f.user.user_id, 0,
                                f.user.user_type, TokenType(f.qr_input))
       ELSE /\ inflight' = [inflight EXCEPT ![s] =
                              [kind |-> "scan", qr_input |-> f.qr_input,
                               user |-> f.user,
                               active_log |-> get_active_log(f.user.user_id)]]
            /\ UNCHANGED status
    /\ watch' = NoWatch
    /\ UNCHANGED <<users, logs, admins, seq, clock, scans, ops, codec, lock, born>>

\* the branch of process_qr_scan without an active log: create_time_in and
\* the message, at station s
ScanTimeIn(s, fault) ==
    LET user == inflight[s].user
        in == create_time_in_call(user.user_id, user.name, user.department, fault)
        outcome == IF in.log_id # 0 THEN "Arrival" ELSE "LedgerError"
    IN
    /\ inflight[s].kind = "scan"
    /\ inflight[s].active_log = None
    /\ logs' = in.logs
    /\ seq' = in.seq
    /\ status' = Report("scan", outcome, user.user_id, in.log_id,
                        user.user_type, TokenType(inflight[s].qr_input))
    /\ scans' = [u \in DOMAIN users |->
                    IF Succeeded(outcome) /\ user.name = users[u].name
                        /\ user.id_number = users[u].id_number
                    THEN scans[u] + 1 ELSE scans[u]]
    /\ ops' = IF Succeeded(outcome) THEN ops + 1 ELSE ops
    /\ inflight' = [inflight EXCEPT ![s] = [kind |-> "idle"]]
    /\ born' = BornAfter(logs')
    /\ watch' = NoWatch
    /\ UNCHANGED <<users, admins, clock, codec, lock>>

\* create_time_out up to its UPDATE, at station s: the SELECT of time_in,
\* which ends the call with False when the row is gone, then the departure
\* time and the duration computed from the time_in that was read
ScanTimeOutSelect(s) ==
    LET f == inflight[s]
        log_id == f.active_log.log_id
        time_out_str == TimeStr(clock.tod)
    IN
    /\ f.kind = "scan"
    /\ f.active_log # None
    /\ IF ReadersRefused
       THEN /\ inflight' = [inflight EXCEPT ![s] = [kind |-> "idle"]]
            /\ status' = Report("scan", "OperationalError", f.user.user_id, log_id,
                                f.user.user_type, TokenType(f.qr_input))
       ELSE IF log_id \in DOMAIN logs
       THEN /\ inflight' = [inflight EXCEPT ![s] =
                              [kind |-> "closing", qr_input |-> f.qr_input,
                               user |-> f.user, active_log |-> f.active_log,
                               time_out_str |-> time_out_str,
                               duration_str |->
                                   DurationStr(logs[log_id].time_in, time_out_str)]]
            /\ UNCHANGED status
       ELSE /\ inflight' = [inflight EXCEPT ![s] = [kind |-> "idle"]]
            /\ status' = Report("scan", "LedgerError", f.user.user_id, log_id,
                                f.user.user_type, TokenType(f.qr_input))
    /\ watch' = NoWatch
    /\ UNCHANGED <<users, logs, admins, seq, clock, scans, ops, codec, lock, born>>

\* the UPDATE of create_time_out leaving the departure time behind when it
\* raises
create_time_out_update_partial(log_id, time_out_str, duration_str, fault) ==
    IF fault \/ WritersRefused
    THEN [ok |-> FALSE,
          logs |-> IF log_id \in DOMAIN logs
                   THEN [logs EXCEPT ![log_id].time_out = time_out_str]
                   ELSE logs]
    ELSE IF log_id \notin DOMAIN logs THEN [ok |-> TRUE, logs |-> logs]
    ELSE [ok |-> TRUE, logs |-> [logs EXCEPT ![log_id].time_out = time_out_str,
                                             ![log_id].duration = duration_str]]

\* the UPDATE ... WHERE log_id = ? of create_time_out and what the call
\* returns: False and nothing written when it raises, True otherwise, also
\* when no row has that log_id any more
create_time_out_update(log_id, time_out_str, duration_str, fault) ==
    IF fault \/ WritersRefused THEN [ok |-> FALSE, logs |-> logs]
    ELSE IF log_id \notin DOMAIN logs THEN [ok |-> TRUE, logs |-> logs]
    ELSE [ok |-> TRUE, logs |-> [logs EXCEPT ![log_id].time_out = time_out_str,
                                             ![log_id].duration = duration_str]]

\* create_time_out from its UPDATE on, at station s
ScanTimeOutUpdate(s, fault) ==
    LET f == inflight[s]
        log_id == f.active_log.log_id
        out == create_time_out_update(log_id, f.time_out_str, f.duration_str, fault)
        written == out.ok /\ log_id \in DOMAIN logs
    IN
    /\ f.kind = "closing"
    /\ logs' = out.logs
    /\ IF out.ok
       THEN /\ inflight' = [inflight EXCEPT ![s] =
                              [kind |-> "closed", qr_input |-> f.qr_input,
                               user |-> f.user, active_log |-> f.active_log]]
            /\ UNCHANGED status
       ELSE /\ inflight' = [inflight EXCEPT ![s] = [kind |-> "idle"]]
            /\ status' = Report("scan", "LedgerError", f.user.user_id, log_id,
                                f.user.user_type, TokenType(f.qr_input))
    /\ scans' = [u \in DOMAIN users |->
                    IF written /\ f.user.name = users[u].name
                        /\ f.user.id_number = users[u].id_number
                    THEN scans[u] + 1 ELSE scans[u]]
    /\ ops' = IF written THEN ops + 1 ELSE ops
    /\ watch' = NoWatch
    /\ UNCHANGED <<users, admins, seq, clock, codec, lock, born>>

\* the row get_log_details returns, or None: the duration and the departure
\* time shown as "Not yet" while they are NULL
get_log_details(log_id) ==
    IF log_id \notin DOMAIN logs THEN None
    ELSE [log_id |-> log_id, name |-> logs[log_id].name,
          time_in |-> logs[log_id].time_in,
          time_out |-> IF logs[log_id].time_out = NULL
                       THEN <<"N", "o", "t", " ", "y", "e", "t">>
                       ELSE logs[log_id].time_out,
          duration |-> IF logs[log_id].duration = NULL
                       THEN <<"N", "o", "t", " ", "y", "e", "t">>
                       ELSE logs[log_id].duration]

\* process_qr_scan after create_time_out returned True, at station s: the
\* call of get_log_details, whose result is subscripted unchecked, so that the
\* handler ends with a TypeError and shows nothing when the row is gone
ScanDetails(s) ==
    LET f == inflight[s]
        log_details == get_log_details(f.active_log.log_id)
        outcome == IF ReadersRefused THEN "OperationalError"
                   ELSE IF log_details = None THEN "TypeError" ELSE "Departure"
    IN
    /\ f.kind = "closed"
    /\ status' = Report("scan", outcome, f.user.user_id, f.active_log.log_id,
                        f.user.user_type, TokenType(f.qr_input))
    /\ inflight' = [inflight EXCEPT ![s] = [kind |-> "idle"]]
    /\ watch' = NoWatch
    /\ UNCHANGED <<users, logs, admins, seq, clock, scans, ops, codec, lock, born>>

\* reset_autoincrement up to its write, at station s: SELECT MAX(pk)
ResetRead(s, table_name) ==
    /\ inflight[s].kind = "idle"
    /\ ops < MaxOps
    /\ IF ReadersRefused
       THEN /\ status' = ResetReport(table_name, FALSE)
            /\ UNCHANGED inflight
       ELSE /\ inflight' = [inflight EXCEPT ![s] =
                              [kind |-> "reset", table_name |-> table_name,
                               max_id |-> MaxPk(table_name)]]
            /\ UNCHANGED status
    /\ watch' = NoWatch
    /\ UNCHANGED <<users, logs, admins, seq, clock, scans, ops, codec, lock, born>>

\* reset_autoincrement from its write to sqlite_sequence on, at station s
ResetWrite(s) ==
    LET f == inflight[s] IN
    /\ f.kind = "reset"
    /\ IF WritersRefused
       THEN /\ status' = ResetReport(f.table_name, FALSE)
            /\ UNCHANGED <<seq, ops>>
       ELSE /\ ops' = IF seq[f.table_name] # f.max_id THEN ops + 1 ELSE ops
            /\ seq' = sqlite_sequence_write(f.table_name, f.max_id)
            /\ status' = ResetReport(f.table_name, TRUE)
    /\ inflight' = [inflight EXCEPT ![s] = [kind |-> "idle"]]
    /\ watch' = NoWatch
    /\ UNCHANGED <<users, logs, admins, clock, scans, codec, lock, born>>

RegisterCheckStep ==
    \E s \in Stations, f \in RegistrationForms, qr_ok \in BOOLEAN :
        RegisterCheck(s, f[1], f[2], f[3], f[4], f[5], f[6], qr_ok)

RegisterInsertStep == \E s \in Stations, fault \in BOOLEAN : RegisterInsert(s, fault)

\* the admin panel's reset of the registry counter
RegistryResetReadStep == ResetRead(Panel, "registered_users")

PanelResetWriteStep == ResetWrite(Panel)

\* the registration window at two stations, with the admin panel's deletion
\* and its reset of the registry counter
RegisterNext ==
    RegisterCheckStep \/ RegisterInsertStep \/ DeleteStep \/ RegistryResetReadStep
        \/ PanelResetWriteStep

SpecRegister == Init /\ [][RegisterNext]_vars

\* the forms two stations submit at the same time: a student and a teacher
\* typing the same id, and a guest
RaceForms ==
    {<<<<"a">>, <<"1">>, <<"d">>, <<"9">>, StudentS, FALSE>>,
     <<<<" ", "b">>, <<"1", " ">>, <<"d">>, <<"9">>, TeacherS, FALSE>>,
     <<<<"b">>, <<>>, <<>>, <<" ", "9">>, GuestS, FALSE>>}

RaceRegisterCheckStep ==
    \E s \in Stations, f \in RaceForms :
        RegisterCheck(s, f[1], f[2], f[3], f[4], f[5], f[6], TRUE)

\* the INSERT of a checked registration, with the database answering
RaceRegisterInsertStep == \E s \in Stations : RegisterInsert(s, FALSE)

\* the token of a stored identity is scanned at a station
RaceScanFindStep == \E s \in Stations, u \in DOMAIN users : ScanFind(s, TokenOf(u))

ScanActiveLogStep == \E s \in Stations : ScanActiveLog(s)

RaceScanTimeInStep == \E s \in Stations : ScanTimeIn(s, FALSE)

ScanTimeOutSelectStep == \E s \in Stations : ScanTimeOutSelect(s)

RaceScanTimeOutUpdateStep == \E s \in Stations : ScanTimeOutUpdate(s, FALSE)

ScanDetailsStep == \E s \in Stations : ScanDetails(s)

RaceNext ==
    RaceRegisterCheckStep \/ RaceRegisterInsertStep \/ RaceScanFindStep
        \/ ScanActiveLogStep \/ RaceScanTimeInStep \/ ScanTimeOutSelectStep
        \/ RaceScanTimeOutUpdateStep \/ ScanDetailsStep \/ DeleteStep \/ Tick

SpecRace == Init /\ [][RaceNext]_vars

\* a guest registers at the desk
DeskRegisterCheckStep ==
    RegisterCheck(Desk, <<"b">>, <<>>, <<>>, <<" ", "9">>, GuestS, FALSE, TRUE)

DeskRegisterInsertStep == RegisterInsert(Desk, FALSE)

\* the token of a stored identity, or a text that is none, is scanned at the
\* desk
ScanFindStep ==
    \E q \in MalformedInputs \cup {TokenOf(u) : u \in DOMAIN users} : ScanFind(Desk, q)

\* the token of a stored identity is scanned at the desk
DeskScanFindStep == \E u \in DOMAIN users : ScanFind(Desk, TokenOf(u))

DeskActiveLogStep == ScanActiveLog(Desk)

\* create_time_in of a scan, the database answering or raising sqlite3.Error
ScanTimeInStep == \E fault \in BOOLEAN : ScanTimeIn(Desk, fault)

DeskTimeInStep == ScanTimeIn(Desk, FALSE)

DeskTimeOutSelectStep == ScanTimeOutSelect(Desk)

\* the UPDATE of create_time_out, the database answering or raising
\* sqlite3.Error
ScanTimeOutUpdateStep == \E fault \in BOOLEAN : ScanTimeOutUpdate(Desk, fault)

DeskTimeOutUpdateStep == ScanTimeOutUpdate(Desk, FALSE)

DeskDetailsStep == ScanDetails(Desk)

\* the reset of the ledger's counter
LedgerResetReadStep == ResetRead(Panel, "log_records")

PanelResetReadStep == \E t \in TableNames : ResetRead(Panel, t)

\* the desk scans, the writes of a scan failing or not, both stations
\* register, identities are deleted and the panel resets the ledger's counter,
\* each of them call by call, with the clock running
StepwiseNext ==
    RaceRegisterCheckStep \/ RaceRegisterInsertStep \/ DeleteStep
        \/ LedgerResetReadStep \/ PanelResetWriteStep \/ Tick
        \/ ScanFindStep \/ DeskActiveLogStep \/ ScanTimeInStep \/ DeskTimeOutSelectStep
        \/ ScanTimeOutUpdateStep \/ DeskDetailsStep

SpecStepwise == Init /\ [][StepwiseNext]_vars

----------------------------------------------------------------------------
(* Admin accounts: the login window and the create-account window          *)

AdminS == <<"a", "d", "m", "i", "n">>
Admin123S == <<"a", "d", "m", "i", "n", "1", "2", "3">>
BobS == <<"b", "o", "b">>
AnnS == <<"a", "n", "n">>
Pw6 == <<"a", "b", "c", "d", "e", "f">>
Pw5 == <<"a", "b", "c", "d", "e">>
Pw7 == <<"a", "b", "c", "d", "e", "f", "g">>

\* username, password and confirmation as typed into the create-account form
AccountForms ==
    {<<BobS, Pw6, Pw6>>,
     <<AnnS, Pw7, Pw7>>,
     <<<<"b", "o">>, Pw6, Pw6>>,
     <<<<"b", "o", "\t">>, Pw6, Pw6>>,
     <<BobS, Pw5, Pw5>>,
     <<BobS, Pw5 \o <<" ">>, Pw5 \o <<" ">>>>,
     <<BobS, Pw6, Pw7>>,
     <<BobS, Pw6, Pw6 \o <<" ">>>>,
     <<AdminS, Pw6, Pw6>>,
     <<<<>>, Pw6, Pw6>>,
     <<BobS, <<>>, <<>>>>}

\* username and password as typed into the login window
TypedCredentials ==
    {<<AdminS, Admin123S>>,
     <<<<" ">> \o AdminS, Admin123S \o <<" ">>>>,
     <<AdminS, Pw6>>,
     <<BobS, Pw6>>,
     <<<<>>, <<>>>>}

\* username and password as typed into the verification dialog: the seeded
\* account with blanks around, a wrong password, a created account
VerifierCredentials ==
    {<<<<" ">> \o AdminS, Admin123S \o <<" ">>>>,
     <<AdminS, Pw6>>,
     <<BobS, Pw6>>}

AdminReport(op, outcome, admin_id, username, password, verifier) ==
    [op |-> op, outcome |-> outcome, admin_id |-> admin_id,
     username |-> username, password |-> password, verifier |-> verifier]

\* the login window's Login button; the OperationalError verify_admin raises
\* when the database refuses readers leaves the handler with nothing shown
login(typed_username, typed_password) ==
    LET username == Strip(typed_username)
        password == Strip(typed_password)
        outcome == IF username = <<>> \/ password = <<>> THEN "ValidationError"
                   ELSE IF ReadersRefused THEN "OperationalError"
                   ELSE IF verify_admin(username, password) THEN "ok"
                   ELSE "AccessDenied"
    IN
    /\ status' = AdminReport("login", outcome, 0, username, password, <<>>)
    /\ UNCHANGED <<users, logs, admins, seq, clock, watch, scans, ops, codec, lock,
                 born, inflight>>

\* the checks of create_account on the stripped form values
account_validation(username, password, confirm) ==
    IF username = <<>> THEN "ValidationError"
    ELSE IF Len(username) < 3 THEN "ValidationError"
    ELSE IF password = <<>> THEN "ValidationError"
    ELSE IF Len(password) < 6 THEN "ValidationError"
    ELSE IF password # confirm THEN "ValidationError"
    ELSE "ok"

\* create_account up to the verification dialog, at station s: the checks
\* of the form, then prompt_creator_credentials opens the dialog and waits in
\* wait_window, where the clicks of the dialog are handled one by one
create_account_begin(s, typed_username, typed_password, typed_confirm) ==
    LET username == Strip(typed_username)
        password == Strip(typed_password)
        confirm == Strip(typed_confirm)
        valid == account_validation(username, password, confirm)
    IN
    /\ inflight[s].kind = "idle"
    /\ IF valid = "ok"
       THEN /\ inflight' = [inflight EXCEPT ![s] =
                              [kind |-> "dialog", username |-> username,
                               password |-> password, tries |-> 0]]
            /\ UNCHANGED status
       ELSE /\ status' = AdminReport("create_account", valid, 0, username, password, <<>>)
            /\ UNCHANGED inflight
    /\ UNCHANGED <<users, logs, admins, seq, clock, watch, scans, ops, codec, lock, born>>

\* the Verify button accepting whatever is typed
on_verify_unchecked(typed_user, typed_pwd) ==
    LET user == Strip(typed_user)
        pwd == Strip(typed_pwd)
    IN
    IF user = <<>> \/ pwd = <<>> THEN "VerificationError"
    ELSE IF ReadersRefused THEN "OperationalError"
    ELSE "ok"

\* what the Verify button of the dialog does with the typed credentials
on_verify(typed_user, typed_pwd) ==
    LET user == Strip(typed_user)
        pwd == Strip(typed_pwd)
    IN
    IF user = <<>> \/ pwd = <<>> THEN "VerificationError"
    ELSE IF ReadersRefused THEN "OperationalError"
    ELSE IF verify_admin(user, pwd) THEN "ok"
    ELSE "VerificationFailed"

\* a click on Verify in the dialog of station s: the dialog closes with ok
\* when verify_admin accepts, and stays open after its error message
\* otherwise
prompt_on_verify(s, typed_user, typed_pwd) ==
    LET f == inflight[s]
        outcome == on_verify(typed_user, typed_pwd)
    IN
    /\ f.kind = "dialog"
    /\ f.tries < MaxAttempts
    /\ IF outcome = "ok"
       THEN /\ inflight' = [inflight EXCEPT ![s] =
                              [kind |-> "verified", username |-> f.username,
                               password |-> f.password,
                               verifier |-> <<Strip(typed_user), Strip(typed_pwd)>>]]
            /\ UNCHANGED status
       ELSE /\ inflight' = [inflight EXCEPT ![s].tries = f.tries + 1]
            \* an OperationalError leaves on_verify with nothing shown and
            \* the dialog open
            /\ status' = AdminReport("on_verify", outcome, 0, f.username, f.password,
                                     <<Strip(typed_user), Strip(typed_pwd)>>)
    /\ UNCHANGED <<users, logs, admins, seq, clock, watch, scans, ops, codec, lock, born>>

\* the dialog of station s is closed by Cancel: prompt_creator_credentials
\* returns False and create_account ends with its warning
prompt_cancel(s) ==
    LET f == inflight[s] IN
    /\ f.kind = "dialog"
    /\ inflight' = [inflight EXCEPT ![s] = [kind |-> "idle"]]
    /\ status' = AdminReport("create_account", "NotVerified", 0,
                             f.username, f.password, <<>>)
    /\ UNCHANGED <<users, logs, admins, seq, clock, watch, scans, ops, codec, lock, born>>

\* where the try block of create_account may raise besides the UNIQUE
\* username: before the INSERT has written (get_connection, cursor, execute),
\* or in commit, which sqlite3 refuses with 'database is locked' while
\* another connection stays inside a read for the whole busy timeout
InsertFaults == {"none", "execute", "commit"}

\* create_account after the dialog returned True, at station s: the INSERT
\* and the message. The sqlite3.IntegrityError of a username that exists is
\* reported as an existing username and any other exception as a failure,
\* with nothing stored. The handler closes its connection after a successful
\* commit only: once the INSERT has begun its transaction, an exception
\* leaves the connection open inside that transaction. After the
\* IntegrityError it holds the write lock of the database; after a refused
\* commit it holds the pending lock, which refuses readers too. An exception
\* raised before that, as when another connection holds the lock, leaves no
\* lock of its own.
create_account_insert(s, fault) ==
    LET f == inflight[s]
        \* username TEXT UNIQUE
        taken == \E a \in DOMAIN admins : admins[a].username = f.username
        admin_id == NextId(seq.admin_accounts, DOMAIN admins)
        \* the INSERT has begun a transaction of this connection
        began == lock = "free" /\ fault # "execute"
        outcome == IF ~began THEN "DatabaseError"
                   ELSE IF taken THEN "UsernameExists"
                   ELSE IF fault = "commit" THEN "DatabaseError"
                   ELSE "ok"
    IN
    /\ f.kind = "verified"
    /\ outcome = "ok" => admin_id <= MaxAdmins
    /\ IF outcome = "ok"
       THEN /\ admins' = [a \in DOMAIN admins \cup {admin_id} |->
                             IF a = admin_id
                             THEN [username |-> f.username, password |-> f.password]
                             ELSE admins[a]]
            /\ seq' = [seq EXCEPT !.admin_accounts = admin_id]
            /\ status' = AdminReport("create_account", outcome, admin_id,
                                     f.username, f.password, f.verifier)
       ELSE /\ UNCHANGED <<admins, seq>>
            /\ status' = AdminReport("create_account", outcome, 0,
                                     f.username, f.password, f.verifier)
    /\ lock' = IF began /\ taken THEN "write"
               ELSE IF began /\ fault = "commit" THEN "pending"
               ELSE lock
    /\ inflight' = [inflight EXCEPT ![s] = [kind |-> "idle"]]
    /\ UNCHANGED <<users, logs, clock, watch, scans, ops, codec, born>>

\* Python's garbage collector reclaims the connection create_account left
\* open, which rolls its transaction back and releases its lock
Collect ==
    /\ lock # "free"
    /\ lock' = "free"
    /\ UNCHANGED <<users, logs, admins, seq, clock, status, watch, scans, ops, codec,
                 born, inflight>>

LoginStep == \E c \in TypedCredentials : login(c[1], c[2])

CreateAccountBeginStep ==
    \E s \in Stations, f \in AccountForms : create_account_begin(s, f[1], f[2], f[3])

OnVerifyStep ==
    \E s \in Stations, c \in VerifierCredentials : prompt_on_verify(s, c[1], c[2])

CancelStep == \E s \in Stations : prompt_cancel(s)

\* the INSERT of a verified account, with nothing but the table and the lock
\* deciding about it
CreateAccountInsertStep == \E s \in Stations : create_account_insert(s, "none")

\* the INSERT of a verified account with an exception raised before the
\* INSERT has written, or by commit
FailingAccountInsertStep ==
    \E s \in Stations, fault \in InsertFaults \ {"none"} : create_account_insert(s, fault)

AdminNext ==
    LoginStep \/ CreateAccountBeginStep \/ OnVerifyStep \/ CancelStep
        \/ CreateAccountInsertStep \/ FailingAccountInsertStep \/ Collect

SpecAdmin == Init /\ [][AdminNext]_vars

\* the panel creates accounts verified by the seeded administrator: a new
\* username and a username that exists
PanelAccountBeginStep ==
    \E f \in {<<BobS, Pw6, Pw6>>, <<AdminS, Pw6, Pw6>>} :
        create_account_begin(Panel, f[1], f[2], f[3])

\* the desk registers guests and scans tokens while the panel deletes
\* identities, resets the counters and creates accounts, each of them call
\* by call, on the database an earlier run left behind
MaintainNext ==
    DeskRegisterCheckStep \/ DeskRegisterInsertStep \/ DeskScanFindStep
        \/ DeskActiveLogStep \/ DeskTimeInStep \/ DeskTimeOutSelectStep
        \/ DeskTimeOutUpdateStep \/ DeskDetailsStep \/ DeleteStep
        \/ PanelResetReadStep \/ PanelResetWriteStep \/ PanelAccountBeginStep
        \/ prompt_on_verify(Panel, AdminS, Admin123S)
        \/ create_account_insert(Panel, "none") \/ Collect

SpecMaintain == InitPopulated /\ [][MaintainNext]_vars

----------------------------------------------------------------------------
(* The token codec on its own: generate_qr_code and parse_qr_data applied  *)
(* to field values and to raw texts of bounded length                      *)

\* field values without the separator: empty, blank, with blanks, a tab, a
\* line end or a no-break space around, and with a letter outside ASCII
FieldValues ==
    SeqsUpTo({"a", " "}, MaxFieldLen)
        \cup {<<"\t", "a">>, <<"a", "\n">>, <<"U+00A0", "U+00E9">>, <<"U+00E9", "U+3000">>}

\* texts as a scanner may deliver them
RawTexts == SeqsUpTo({"a", " ", SEP}, MaxRawLen)

CodecInit ==
    /\ users = <<>>
    /\ logs = <<>>
    /\ admins = (1 :> [username |-> <<"a", "d", "m", "i", "n">>,
                       password |-> <<"a", "d", "m", "i", "n", "1", "2", "3">>])
    /\ seq = [registered_users |-> 0, log_records |-> 0, admin_accounts |-> 1]
    /\ clock = [day |-> 0, tod |-> 32400]
    /\ status = Report("init", "ok", 0, 0, <<>>, <<>>)
    /\ watch = NoWatch
    /\ scans = <<>>
    /\ ops = 0
    /\ lock = "free"
    /\ born = <<>>
    /\ inflight = NoInflight
    /\ \/ \E a \in FieldValues, b \in FieldValues, c \in FieldValues, d \in FieldValues :
             codec = [stage |-> "fields", fields |-> <<a, b, c, d>>,
                      token |-> <<>>, parsed |-> None]
       \/ \E t \in RawTexts :
             codec = [stage |-> "token", fields |-> <<>>, token |-> t, parsed |-> None]

Encode ==
    /\ codec.stage = "fields"
    /\ codec' = [codec EXCEPT !.stage = "token",
                              !.token = generate_qr_code(codec.fields[1], codec.fields[2],
                                                         codec.fields[3], codec.fields[4])]
    /\ UNCHANGED <<users, logs, admins, seq, clock, status, watch, scans, ops, lock,
                 born, inflight>>

Decode ==
    /\ codec.stage = "token"
    /\ codec' = [codec EXCEPT !.stage = "parsed", !.parsed = parse_qr_data(codec.token)]
    /\ UNCHANGED <<users, logs, admins, seq, clock, status, watch, scans, ops, lock,
                 born, inflight>>

CodecNext == Encode \/ Decode

SpecCodec == CodecInit /\ [][CodecNext]_vars

\* field values that may hold the separator
SepFieldValues == SeqsUpTo({" ", SEP}, MaxFieldLen) \cup {<<"a">>}

\* the codec handed four values, any of which may hold the separator
CodecSepInit ==
    /\ users = <<>>
    /\ logs = <<>>
    /\ admins = (1 :> [username |-> <<"a", "d", "m", "i", "n">>,
                       password |-> <<"a", "d", "m", "i", "n", "1", "2", "3">>])
    /\ seq = [registered_users |-> 0, log_records |-> 0, admin_accounts |-> 1]
    /\ clock = [day |-> 0, tod |-> 32400]
    /\ status = Report("init", "ok", 0, 0, <<>>, <<>>)
    /\ watch = NoWatch
    /\ scans = <<>>
    /\ ops = 0
    /\ lock = "free"
    /\ born = <<>>
    /\ inflight = NoInflight
    /\ \E a \in SepFieldValues, b \in SepFieldValues, c \in SepFieldValues,
          d \in SepFieldValues :
          codec = [stage |-> "fields", fields |-> <<a, b, c, d>>,
                   token |-> <<>>, parsed |-> None]

SpecCodecSep == CodecSepInit /\ [][CodecNext]_vars

----------------------------------------------------------------------------
(* Properties                                                              *)

IsPrefix(p, q) == Len(p) <= Len(q) /\ SubSeq(q, 1, Len(p)) = p

Cycle == <<"Arrival", "Departure", "Arrival">>

UserIdsInLedger == {logs[l].user_id : l \in DOMAIN logs}

\* C1: whatever register, scan, delete and reset_autoincrement calls ran, no
\* user_id has two log rows with time_out NULL.
C1_AtMostOneOpenVisit ==
    \A id \in UserIdsInLedger \cup DOMAIN users : Cardinality(OpenLogs(id)) <= 1

\* an identity that is checked in for the second time
C1_Witness ==
    \E u \in DOMAIN users :
        /\ Cardinality(OpenLogs(u)) = 1
        /\ \E l \in DOMAIN logs : logs[l].user_id = u /\ logs[l].time_out # NULL

\* C2: the scans of a just registered identity's token, following the
\* registration with nothing in between, report Arrival, Departure, Arrival
\* in that order (stated for the tokens that decode to four fields).
C2_FreshScanCycle ==
    (watch.token # <<>> /\ ~watch.gone /\ parse_qr_data(watch.token) # None)
        => IsPrefix(watch.run, Cycle)

\* C3: an identity whose token was scanned successfully N times has one open
\* visit when N is odd and none when N is even.
C3_ScanParity ==
    \A u \in DOMAIN users : Cardinality(OpenLogs(u)) = scans[u] % 2

\* C4 as claimed: a scan of a text that does not split into exactly 4 parts
\* reports InvalidFormat and leaves registry and ledger as they were.
C4_MalformedIsInvalidFormat ==
    [][\A q \in ScanInputs :
          (status'.op = "scan" /\ Len(Split(q)) # 4 /\ Scan(q))
              => (status'.outcome = "InvalidFormat"
                  /\ UNCHANGED <<users, logs, seq>>)]_vars

\* C4 as amended: such a scan writes nothing; it reports InvalidFormat when
\* the stripped text is not empty and the no-data message when it is empty.
C4_MalformedWritesNothing ==
    [][\A q \in ScanInputs :
          (status'.op = "scan" /\ Len(Split(q)) # 4 /\ Scan(q))
              => (/\ status'.outcome =
                        (IF Strip(q) = <<>> THEN "NoData" ELSE "InvalidFormat")
                  /\ UNCHANGED <<users, logs, seq>>)]_vars

\* a malformed text was scanned while a visit was open
C4_Witness ==
    /\ status.op = "scan"
    /\ status.outcome = "InvalidFormat"
    /\ \E l \in DOMAIN logs : logs[l].time_out = NULL

\* C5: a scan of a four-field token whose name and id match no stored identity
\* reports UnknownIdentity and leaves the ledger as it was.
C5_UnknownIdentityWritesNothing ==
    [][\/ (status'.outcome = "UnknownIdentity" /\ UNCHANGED <<users, logs, seq>>)
       \/ \A q \in ScanInputs :
             ~(/\ status'.op = "scan"
               /\ parse_qr_data(q) # None
               /\ MatchingUsers(parse_qr_data(q).name, parse_qr_data(q).id_number) = {}
               /\ Scan(q))]_vars

\* the token of an identity that was registered and then deleted was scanned
C5_Witness ==
    /\ watch.gone
    /\ watch.run = <<"UnknownIdentity">>
    /\ status.outcome = "UnknownIdentity"

TokenNames == {<<"a">>, <<"b">>}
TokenIds == {<<"1">>, GuestS}
\* affiliation and category fields a token may carry besides the true ones
TokenFields == {<<<<"x">>, GuestS>>, <<GuestS, TeacherS>>, <<<<"d">>, <<"x">>>>, <<<<>>, <<>>>>}

\* C6: two four-field tokens with the same name and id give the same outcome,
\* the same ledger and the same report whatever their affiliation and category
\* fields are, and the snapshot and the reported category are the registry's.
C6_TokenFieldsIgnored ==
    \A n \in TokenNames, i \in TokenIds :
      LET r0 == process_qr_scan(generate_qr_code(n, i, <<"d">>, StudentS)) IN
      \A f \in TokenFields :
        LET r == process_qr_scan(generate_qr_code(n, i, f[1], f[2]))
        IN /\ r = r0
           /\ Succeeded(r.outcome) =>
                 /\ r.department = users[r.uid].department
                 /\ r.user_type = users[r.uid].user_type
                 /\ r.logs[r.log_id].department_or_status = users[r.uid].department

\* a token with a forged category was scanned and opened a visit
C6_Witness ==
    /\ status.op = "scan"
    /\ status.outcome = "Arrival"
    /\ status.token_type # users[status.uid].user_type
    /\ status.user_type = users[status.uid].user_type
    /\ logs[status.log_id].department_or_status = users[status.uid].department

TwoDigits(n) == <<Digit(n \div 10), Digit(n % 10)>>

HMS(s) ==
    TwoDigits(s \div 3600) \o <<":">> \o TwoDigits((s % 3600) \div 60)
        \o <<":">> \o TwoDigits(s % 60)

\* C7: a closed visit whose departure is not earlier in the day than its
\* arrival stores the whole seconds between the two as HH:MM:SS; 09:00:00 to
\* 09:01:30 is stored as 00:01:30.
C7_DurationIsDifference ==
    \A l \in DOMAIN logs :
        (logs[l].time_out # NULL
            /\ ParseTime(logs[l].time_out) >= ParseTime(logs[l].time_in))
        => /\ logs[l].duration =
                 HMS(ParseTime(logs[l].time_out) - ParseTime(logs[l].time_in))
           /\ (logs[l].time_in = <<"0", "9", ":", "0", "0", ":", "0", "0">>
                 /\ logs[l].time_out = <<"0", "9", ":", "0", "1", ":", "3", "0">>)
              => logs[l].duration = <<"0", "0", ":", "0", "1", ":", "3", "0">>

\* a visit opened at 09:00:00 and closed at 09:01:30
C7_Witness ==
    \E l \in DOMAIN logs :
        /\ logs[l].time_in = <<"0", "9", ":", "0", "0", ":", "0", "0">>
        /\ logs[l].time_out = <<"0", "9", ":", "0", "1", ":", "3", "0">>
        /\ logs[l].duration # NULL

IsDigit(c) == \E d \in 0..9 : DigitChars[d + 1] = c

\* C8: the duration of every closed visit, also of one closed after midnight,
\* is two digits of hours, minutes in 00..59 and seconds in 00..59.
C8_DurationWellFormed ==
    \A l \in DOMAIN logs :
        logs[l].time_out # NULL =>
            LET d == logs[l].duration IN
            /\ Len(d) = 8
            /\ \A k \in {1, 2, 4, 5, 7, 8} : IsDigit(d[k])
            /\ d[3] = ":" /\ d[6] = ":"
            /\ DigitVal(d[4]) <= 5 /\ DigitVal(d[7]) <= 5

RegisteredNames == {Strip(f[1]) : f \in RegistrationForms}
RegisteredIds == {Strip(f[2]) : f \in RegistrationForms} \cup {GuestS}

\* C9: after delete_user(X) of a stored identity X no log row has user_id X,
\* and the lookup by X's name and id finds nothing.
C9_DeleteCascade ==
    [][\A u \in 1..MaxUserId, n \in RegisteredNames, i \in RegisteredIds :
          (/\ status'.op = "delete"
           /\ u \in DOMAIN users
           /\ users[u].name = n
           /\ users[u].id_number = i
           /\ delete_user(u))
              => (/\ \A l \in DOMAIN logs' : logs'[l].user_id # u
                  /\ get_user_by_qr_data(n, i)' = None)]_vars

NonGuests == {u \in DOMAIN users : users[u].user_type # GuestS}

\* C10: no two non-guest identities have the same id_number, and no guest
\* registration is refused as a duplicate id.
C10_UniqueNonGuestIds ==
    /\ \A u, v \in NonGuests : u # v => users[u].id_number # users[v].id_number
    /\ (status.op = "register" /\ status.user_type = GuestS)
          => status.outcome # "DuplicateExternalId"

\* a guest was registered while another identity held the id "Guest"
C10_Witness ==
    /\ status.op = "register"
    /\ status.outcome = "ok"
    /\ status.user_type = GuestS
    /\ \E v \in DOMAIN users : v # status.uid /\ users[v].id_number = GuestS

FieldsRecord(f) ==
    [name |-> f[1], id_number |-> f[2], department |-> f[3], user_type |-> f[4]]

\* the number of "|"-delimited segments of a text
Segments(t) == 1 + Cardinality({k \in 1..Len(t) : t[k] = SEP})

\* C11 as claimed: decoding the encoding of four separator-free values gives
\* back exactly these values, also when they are empty or have whitespace around
\* them; a text with fewer or more than 4 segments fails to decode.
C11_RoundTripExact ==
    codec.stage = "parsed" =>
        /\ codec.fields # <<>> => codec.parsed = FieldsRecord(codec.fields)
        /\ Segments(codec.token) # 4 => codec.parsed = None

\* C11 as amended: the decoder strips the whole text first, so the first
\* value comes back without its leading whitespace and the last one without
\* its trailing whitespace; the other two come back exactly.
C11_RoundTripStripped ==
    codec.stage = "parsed" =>
        /\ codec.fields # <<>> =>
              codec.parsed = [name |-> LStrip(codec.fields[1]),
                              id_number |-> codec.fields[2],
                              department |-> codec.fields[3],
                              user_type |-> RStrip(codec.fields[4])]
        /\ (codec.fields # <<>> /\ LStrip(codec.fields[1]) = codec.fields[1]
               /\ RStrip(codec.fields[4]) = codec.fields[4])
              => codec.parsed = FieldsRecord(codec.fields)
        /\ Segments(codec.token) # 4 => codec.parsed = None

\* values with whitespace around them and an empty value went through the
\* codec
C11_Witness ==
    /\ codec.stage = "parsed"
    /\ codec.fields # <<>>
    /\ codec.fields[1] = <<"a">>
    /\ codec.fields[2] = <<" ", "a">>
    /\ codec.fields[3] = <<>>
    /\ codec.fields[4] = <<"a">>
    /\ codec.parsed = FieldsRecord(codec.fields)

\* what can be typed into and picked in the dashboard's search controls
SearchTerms == {<<>>, <<"a">>, <<"A">>, <<"b">>, <<"1">>, <<"x">>, <<"_">>, <<"%">>}
SearchFields == {"name", "id_number", "department"}
SearchTypes == {AllS, StudentS, TeacherS, GuestS}
SearchDates == {<<>>} \cup {DateStr(d) : d \in 0..MaxDay}

\* term occurs in text as a run of consecutive characters, letters compared
\* without regard to case (the storage collation)
Contains(text, term) ==
    \E i \in 0..(Len(text) - Len(term)) :
        \A k \in 1..Len(term) : Lower(text[i + k]) = Lower(term[k])

DayOf(date) == CHOOSE d \in 0..MaxDay : DateStr(d) = date

\* the field of a visit a search term is matched against
SearchedText(l, field) ==
    IF field = "name" THEN logs[l].name
    ELSE IF field = "id_number" THEN users[logs[l].user_id].id_number
    ELSE logs[l].department_or_status

\* the visits that satisfy every supplied filter
Satisfying(term, field, type, from, to) ==
    {l \in DOMAIN logs :
        /\ term # <<>> => Contains(SearchedText(l, field), term)
        /\ from # <<>> => DayOf(from) <= logs[l].date
        /\ to # <<>> => logs[l].date <= DayOf(to)
        /\ type # AllS => users[logs[l].user_id].user_type = type}

IsDescending(ids) == \A k \in 1..(Len(ids) - 1) : ids[k] > ids[k + 1]

\* C12: a search returns exactly the visits that satisfy every supplied
\* filter (term as a substring of the chosen field, date range, category
\* unless "All"), in descending log_id order; an omitted filter restricts
\* nothing.
C12_SearchExact ==
    \A term \in SearchTerms, field \in SearchFields, type \in SearchTypes,
       from \in SearchDates, to \in SearchDates :
        LET found == AdminDashboard_search_logs(term, field, type, from, to) IN
        /\ {found[k] : k \in 1..Len(found)} = Satisfying(term, field, type, from, to)
        /\ IsDescending(found)

UsernameTaken(username) == \E a \in DOMAIN admins : admins[a].username = username

\* C13, with every length and comparison taken on the values create_account
\* works with (the typed ones without the whitespace around them):
\* create_account leaves the admin table unchanged and opens no dialog when
\* the username has fewer than 3 characters, the password fewer than 6 (5,
\* say) or the confirmation differs; it stores nothing when the username
\* exists; and once a verifier was accepted, a new username of 3 or more
\* characters is stored with its password of 6 or more characters.
C13_RejectsAndStores ==
    [][\A s \in Stations :
          /\ \A f \in AccountForms :
                create_account_begin(s, f[1], f[2], f[3]) =>
                    LET u == Strip(f[1])
                        p == Strip(f[2])
                        c == Strip(f[3])
                    IN
                    /\ admins' = admins
                    /\ (Len(u) < 3 \/ Len(p) < 6 \/ c # p)
                          <=> inflight'[s].kind = "idle"
          /\ create_account_insert(s, "none") =>
                LET u == inflight[s].username
                    p == inflight[s].password
                IN
                /\ UsernameTaken(u) => admins' = admins
                /\ ~UsernameTaken(u) =>
                      \E a \in DOMAIN admins' \ DOMAIN admins :
                          admins'[a] = [username |-> u, password |-> p]]_vars

\* C14: the admin table changes only in the INSERT of a create_account whose
\* dialog was closed by a Verify click that verify_admin accepted, in the
\* same invocation, for the credentials of an account stored before the
\* insert; a dialog that is cancelled, and a click that is not accepted,
\* insert nothing.
C14_InsertNeedsVerification ==
    [][/\ admins' # admins =>
            /\ status'.op = "create_account"
            /\ status'.verifier # <<>>
            /\ \E a \in DOMAIN admins :
                   /\ admins[a].username = status'.verifier[1]
                   /\ admins[a].password = status'.verifier[2]
            /\ \E s \in Stations :
                   /\ inflight[s].kind = "verified"
                   /\ inflight'[s].kind = "idle"
                   /\ inflight[s].verifier = status'.verifier
       /\ \A s \in Stations :
             /\ (inflight'[s].kind = "verified" /\ inflight[s].kind # "verified") =>
                    /\ inflight[s].kind = "dialog"
                    /\ verify_admin(inflight'[s].verifier[1], inflight'[s].verifier[2])
                    /\ admins' = admins
             /\ (inflight[s].kind = "dialog" /\ inflight'[s] # inflight[s]
                    /\ inflight'[s].kind # "verified") =>
                    admins' = admins]_vars

\* an account was created on the verification of an admin that is not the
\* seeded one
C14_Witness ==
    /\ status.op = "create_account"
    /\ status.outcome = "ok"
    /\ status.verifier = <<BobS, Pw6>>
    /\ status.username = AnnS

CheckedUsernames ==
    {AdminS, <<"A", "d", "m", "i", "n">>, AdminS \o <<" ">>, BobS, AnnS}
CheckedPasswords ==
    {Admin123S, <<"A", "d", "m", "i", "n", "1", "2", "3">>, Admin123S \o <<" ">>,
     <<"a", "d", "m", "i", "n", "1", "2">>, Pw5, Pw6, Pw7}

AccountExists(u, p) ==
    \E a \in DOMAIN admins : admins[a] = [username |-> u, password |-> p]

\* C15: in every state the SELECT of verify_admin(u, p) finds a row exactly
\* when a row holds exactly u and exactly p; right after initialization that
\* is the pair admin/admin123 and no other; a login, which returns what
\* verify_admin returns for the stripped fields, succeeds exactly on such a
\* pair, and the dialog of create_account is closed as verified on such a
\* pair only.
C15_VerifyExactMatch ==
    /\ \A u \in CheckedUsernames, p \in CheckedPasswords :
          /\ verify_admin(u, p) <=> AccountExists(u, p)
          /\ status.op = "init" =>
                (verify_admin(u, p) <=> (u = AdminS /\ p = Admin123S))
    /\ (status.op = "create_account" /\ status.outcome = "ok")
          => verify_admin(status.username, status.password)
    /\ status.op = "login" =>
          /\ status.outcome = "ok" <=> AccountExists(status.username, status.password)
          /\ status.outcome = "ValidationError"
                <=> (status.username = <<>> \/ status.password = <<>>)
    /\ \A s \in Stations :
          inflight[s].kind = "verified"
              => AccountExists(inflight[s].verifier[1], inflight[s].verifier[2])

\* the identities stored with the id e
Holders(e) == {u \in DOMAIN users : users[u].id_number = e}

\* C16: right after a registration succeeded check_id_exists is true of the
\* id it stored ("Guest" for a guest), and it stays true of an id over every
\* step that leaves at least one identity holding that id in the registry.
C16_IdStaysKnown ==
    [][/\ \A f \in RegistrationForms :
             (status'.op = "register" /\ status'.outcome = "ok"
                /\ register_user(f[1], f[2], f[3], f[4], f[5], f[6], TRUE))
             => check_id_exists(IF f[5] = GuestS THEN GuestS ELSE Strip(f[2]))'
       /\ \A e \in RegisteredIds :
             (Holders(e) \cap DOMAIN users' # {})
             => (/\ check_id_exists(e)'
                 /\ \A u \in Holders(e) \cap DOMAIN users' : users'[u].id_number = e)]_vars

\* one of two guests was deleted and "Guest" is still a known id
C16_Witness ==
    /\ status.op = "delete"
    /\ watch.gone
    /\ parse_qr_data(watch.token) # None
    /\ parse_qr_data(watch.token).id_number = GuestS
    /\ check_id_exists(GuestS)

\* station s ends, in this step, a scan with the LedgerError message
EndsInLedgerError(s) ==
    /\ inflight[s].kind \in {"scan", "closing"}
    /\ inflight'[s].kind = "idle"
    /\ status'.op = "scan"
    /\ status'.outcome = "LedgerError"

\* station s makes, in this step, a call of a scan that is not the INSERT of
\* create_time_in and not the UPDATE of create_time_out
ScanReads(s) ==
    /\ inflight'[s] # inflight[s]
    /\ \/ inflight'[s].kind \in {"found", "scan", "closing"}
       \/ inflight[s].kind = "closed"

\* C17: a scan that ends in LedgerError, because the visit it was about to
\* close is gone or because the write raised, leaves registry, ledger and
\* counters as they were, in the step that fails and in the calls before it
\* (the lookups and the SELECT of create_time_out write nothing), so the open
\* visit the next scan finds for an identity is the one it would have found
\* had the failed scan not been made.
C17_LedgerErrorWritesNothing ==
    [][\A s \in Stations :
          (EndsInLedgerError(s) \/ ScanReads(s))
              => /\ UNCHANGED <<users, logs, seq>>
                 /\ \A u \in DOMAIN users :
                        get_active_log(u)' = get_active_log(u)]_vars

\* a scan found its open visit, the identity was deleted before the write,
\* and the scan ended in LedgerError
C17_Witness ==
    /\ status.op = "scan"
    /\ status.outcome = "LedgerError"
    /\ status.log_id # 0
    /\ status.log_id \notin DOMAIN logs

\* C18: once a visit has its time_out and duration, no later call or scan
\* changes the row; it leaves the ledger only in the delete_user of its
\* identity.
C18_ClosedVisitImmutable ==
    [][\A l \in DOMAIN logs :
          logs[l].time_out # NULL =>
              IF l \in DOMAIN logs' THEN logs'[l] = logs[l]
              ELSE status'.op = "delete" /\ status'.uid = logs[l].user_id]_vars

\* C19: a close (by a departure scan or by a call of create_time_out) sets
\* time_out and duration of its row and nothing else: user_id, name,
\* department_or_status, time_in and date of the row, every other row and
\* every identity stay as they were, also when the day has changed since the
\* arrival.
C19_CloseFrame ==
    [][((status'.op = "scan" /\ status'.outcome = "Departure")
           \/ (status'.op = "close" /\ status'.outcome = "ok"))
          => /\ users' = users
             /\ DOMAIN logs' = DOMAIN logs
             /\ status'.log_id \in DOMAIN logs
             /\ \A l \in DOMAIN logs :
                   IF l = status'.log_id
                   THEN /\ logs'[l] = [logs[l] EXCEPT !.time_out = logs'[l].time_out,
                                                      !.duration = logs'[l].duration]
                        /\ logs'[l].time_out # NULL
                        /\ logs'[l].duration # NULL
                   ELSE logs'[l] = logs[l]]_vars

\* a visit of the first day was closed by a scan on the next day
C19_Witness ==
    /\ status.op = "scan"
    /\ status.outcome = "Departure"
    /\ clock.day = 1
    /\ logs[status.log_id].date = 0
    /\ logs[status.log_id].time_out # NULL
    /\ ParseTime(logs[status.log_id].time_out) < ParseTime(logs[status.log_id].time_in)

\* C20: get_active_log(user_id) is None when the user has no row with
\* time_out NULL; otherwise it is the row with the highest log_id among the
\* user's rows with time_out NULL, also when there are several.
C20_HighestOpenVisit ==
    \A u \in 1..MaxUserId :
        LET open == {l \in DOMAIN logs : logs[l].user_id = u /\ logs[l].time_out = NULL}
            found == get_active_log(u)
        IN IF open = {} THEN found = None
           ELSE /\ found # None
                /\ found.log_id \in open
                /\ \A l \in open : l <= found.log_id
                /\ found.time_in = logs[found.log_id].time_in
                /\ found.date = logs[found.log_id].date

\* an identity has two open visits, opened at different times
C20_Witness ==
    \E u \in DOMAIN users : \E l, m \in OpenLogs(u) :
        l < m /\ logs[l].time_in # logs[m].time_in

----------------------------------------------------------------------------
(* Listing of the day's visits                                             *)

\* the place of a row in the order of the INSERTs
BornPos(l) == CHOOSE k \in 1..Len(born) : born[k] = l

\* C21: get_today_logs returns exactly the rows whose date is today, each
\* once, by descending log_id; and among the rows in the ledger a higher
\* log_id is a later INSERT, also after delete_user and reset_autoincrement
\* of log_records.
C21_TodayMostRecentFirst ==
    LET rows == get_today_logs
        todays == {l \in DOMAIN logs : logs[l].date = clock.day}
    IN /\ {rows[k].log_id : k \in 1..Len(rows)} = todays
       /\ Len(rows) = Cardinality(todays)
       /\ \A k \in 1..Len(rows) :
             /\ rows[k].name = logs[rows[k].log_id].name
             /\ rows[k].time_in = logs[rows[k].log_id].time_in
       /\ \A k \in 1..(Len(rows) - 1) :
             /\ rows[k].log_id > rows[k + 1].log_id
             /\ BornPos(rows[k].log_id) > BornPos(rows[k + 1].log_id)
       /\ {born[k] : k \in 1..Len(born)} = DOMAIN logs
       /\ \A l, m \in DOMAIN logs : l > m <=> BornPos(l) > BornPos(m)

\* the guest was deleted with its visit, log_records was reset, and the next
\* arrival of the student took the log_id the guest's visit had; the list of
\* the day shows it above the student's earlier visit
C21_Witness ==
    /\ status.op = "scan"
    /\ status.outcome = "Arrival"
    /\ status.log_id = 2
    /\ 2 \in DOMAIN logs
    /\ logs[2].user_id = 1
    /\ Len(get_today_logs) = 2
    /\ get_today_logs[1].log_id = 2

----------------------------------------------------------------------------
(* Two stations                                                            *)

\* the open visits of an identity in a ledger
OpenLogsIn(ledger, user_id) ==
    {l \in DOMAIN ledger : ledger[l].user_id = user_id /\ ledger[l].time_out = NULL}

\* station s completes, in this step, the scan whose lookups it made earlier
CompletesScan(s) == inflight[s].kind = "scan" /\ inflight'[s].kind = "idle"

\* C22: a scan that found no open visit at its get_active_log inserts its
\* row whatever the ledger holds by the time of its create_time_in (nothing
\* rechecks and no constraint refuses it), and an identity comes to have two
\* open visits in this way only; so two scans of an identity that is out,
\* both past get_active_log before either writes, both report Arrival.
C22_ArrivalNotRechecked ==
    [][/\ \A s \in Stations :
             (CompletesScan(s) /\ inflight[s].active_log = None) =>
                 LET u == inflight[s].user.user_id IN
                 /\ status'.outcome = "Arrival"
                 /\ status'.uid = u
                 /\ status'.log_id \in DOMAIN logs' \ DOMAIN logs
                 /\ logs'[status'.log_id].user_id = u
                 /\ logs'[status'.log_id].time_out = NULL
                 /\ OpenLogsIn(logs', u) = OpenLogs(u) \cup {status'.log_id}
       /\ \A u \in 1..MaxUserId :
             (Cardinality(OpenLogs(u)') >= 2
                  /\ Cardinality(OpenLogs(u)') > Cardinality(OpenLogs(u))) =>
                 \E s \in Stations :
                     /\ CompletesScan(s)
                     /\ inflight[s].user.user_id = u
                     /\ inflight[s].active_log = None]_vars

\* both stations have reported Arrival for the same identity, which now has
\* two open visits
C22_Witness ==
    \E u \in DOMAIN users :
        /\ Cardinality(OpenLogs(u)) = 2
        /\ status.op = "scan"
        /\ status.outcome = "Arrival"
        /\ status.uid = u
        /\ \A s \in Stations : inflight[s].kind = "idle"

\* station s completes, in this step, the registration it validated earlier
CompletesRegistration(s) == inflight[s].kind = "register" /\ inflight'[s].kind = "idle"

\* the Student and Teacher rows holding an id_number in a registry
NonGuestHolders(registry, e) ==
    {u \in DOMAIN registry :
        registry[u].id_number = e /\ registry[u].user_type # GuestS}

\* C23: a registration that passed validate_input inserts its row whatever
\* the registry holds by the time of the INSERT (check_id_exists is not
\* asked again and no constraint refuses the id_number), and two Student or
\* Teacher rows come to share an id_number in this way only; so two
\* registrations with the same id_number, both validated before either
\* inserts, both succeed.
C23_InsertNotRechecked ==
    [][/\ \A s \in Stations :
             CompletesRegistration(s) =>
                 /\ status'.op = "register"
                 /\ status'.outcome = "ok"
                 /\ status'.uid \in DOMAIN users' \ DOMAIN users
                 /\ users'[status'.uid].id_number = inflight[s].id_number
                 /\ users'[status'.uid].user_type = inflight[s].user_type
                 /\ \A u \in DOMAIN users : users'[u] = users[u]
       /\ \A e \in RegisteredIds :
             (Cardinality(NonGuestHolders(users', e)) >= 2
                  /\ Cardinality(NonGuestHolders(users', e))
                         > Cardinality(NonGuestHolders(users, e))) =>
                 \E s \in Stations :
                     /\ CompletesRegistration(s)
                     /\ inflight[s].id_number = e
                     /\ inflight[s].user_type # GuestS]_vars

\* both stations have reported a successful registration and the registry
\* holds a student and a teacher with the same id_number
C23_Witness ==
    /\ status.op = "register"
    /\ status.outcome = "ok"
    /\ \A s \in Stations : inflight[s].kind = "idle"
    /\ \E u, v \in DOMAIN users :
          /\ u # v
          /\ users[u].user_type # GuestS
          /\ users[v].user_type # GuestS
          /\ users[u].id_number = users[v].id_number

----------------------------------------------------------------------------
(* Recycling of ids                                                        *)

\* C24: whatever registrations, deletions and resets came before, the
\* user_id a registration assigns is the id of no row in registered_users,
\* and the rows that were there stay as they were under their ids.
C24_FreshUserId ==
    [][(status'.op = "register" /\ status'.outcome = "ok" /\ users' # users) =>
          /\ status'.uid \notin DOMAIN users
          /\ DOMAIN users' = DOMAIN users \cup {status'.uid}
          /\ \A u \in DOMAIN users : users'[u] = users[u]]_vars

\* the guest with user_id 2 was deleted, registered_users was reset, and the
\* next registration was given user_id 2 while user 1 is still there
C24_Witness ==
    /\ status.op = "register"
    /\ status.outcome = "ok"
    /\ status.uid = 2
    /\ DOMAIN users = {1, 2}
    /\ users[2].name = <<"a">>
    /\ seq.registered_users = 2

\* the primary keys of a table, given the three tables
TableIdsIn(registry, ledger, accounts, table_name) ==
    IF table_name = "registered_users" THEN DOMAIN registry
    ELSE IF table_name = "log_records" THEN DOMAIN ledger
    ELSE DOMAIN accounts

\* the id an INSERT is to receive once the table was reset
IdAfterReset(ids) == IF ids = {} THEN 1 ELSE SetMax(ids) + 1

\* station s makes, in this step, the SELECT MAX of its reset_autoincrement
BeginsReset(s) == inflight[s].kind = "idle" /\ inflight'[s].kind = "reset"

\* station s makes, in this step, the write of its reset_autoincrement
CompletesReset(s) == inflight[s].kind = "reset" /\ inflight'[s].kind = "idle"

\* C25: reset_autoincrement(T) changes no row of registered_users,
\* log_records or admin_accounts, neither in its SELECT MAX nor in its
\* write; when it returns True and no other station has changed MAX(id) of
\* T between the two, it leaves the counter such that the next INSERT into T
\* receives MAX(id) + 1, or 1 when T is empty; and the INSERT that follows
\* it does receive that id.
C25_ResetThenInsert ==
    [][/\ \A s \in Stations :
             /\ (BeginsReset(s) \/ CompletesReset(s))
                    => UNCHANGED <<users, logs, admins>>
             /\ (CompletesReset(s) /\ status'.outcome = "ok"
                    /\ inflight[s].max_id = MaxPk(inflight[s].table_name))
                    => NextId(seq'[status'.table],
                              TableIdsIn(users', logs', admins', status'.table))
                         = IdAfterReset(TableIdsIn(users', logs', admins',
                                                   status'.table))
       /\ (status.op = "reset" /\ status.outcome = "ok") =>
             LET before == TableIdsIn(users, logs, admins, status.table)
                 after == TableIdsIn(users', logs', admins', status.table)
             IN NextId(seq[status.table], before) = IdAfterReset(before)
                    => \A id \in after \ before : id = IdAfterReset(before)]_vars

\* every identity was deleted, registered_users was reset, and the next
\* registration was given user_id 1
C25_Witness ==
    /\ status.op = "register"
    /\ status.outcome = "ok"
    /\ status.uid = 1
    /\ DOMAIN users = {1}
    /\ users[1].user_type = GuestS
    /\ seq.registered_users = 1

----------------------------------------------------------------------------
(* Registration guards                                                     *)

\* station s passes, in this step, validate_input and the QR generation
StartsRegistration(s) == inflight[s].kind = "idle" /\ inflight'[s].kind = "register"

\* C26: a registration is let through to the INSERT only with a name, a
\* contact number, a QR image and, for a Student or Teacher, an id_number
\* and a department, the id_number being the id_number of no row; a
\* registration that is turned away (by a guard or by the QR generation
\* failing) leaves registered_users as it was and starts no INSERT; and every
\* row that enters registered_users is the row of a registration let through.
C26_RejectedAddsNothing ==
    [][/\ \A s \in Stations :
             StartsRegistration(s) =>
                 LET f == inflight'[s] IN
                 /\ f.name # <<>>
                 /\ f.contact_number # <<>>
                 /\ f.qr_path # NoneText
                 /\ f.user_type # GuestS =>
                       /\ f.id_number # <<>>
                       /\ f.department # <<>>
                       /\ \A u \in DOMAIN users : users[u].id_number # f.id_number
       /\ (status' # status /\ status'.op = "register" /\ status'.outcome # "ok") =>
             /\ users' = users
             /\ \A s \in Stations : ~StartsRegistration(s)
       /\ \A u \in DOMAIN users' \ DOMAIN users :
             \E s \in Stations :
                 /\ CompletesRegistration(s)
                 /\ users'[u] = [name |-> inflight[s].name,
                                 id_number |-> inflight[s].id_number,
                                 department |-> inflight[s].department,
                                 contact_number |-> inflight[s].contact_number,
                                 user_type |-> inflight[s].user_type]]_vars

\* a registration with an id_number that is already held was turned away
\* while no station was between its check and its INSERT
C26_Witness ==
    /\ status.op = "register"
    /\ status.outcome = "DuplicateExternalId"
    /\ users # <<>>
    /\ \A s \in Stations : inflight[s].kind = "idle"

----------------------------------------------------------------------------
(* Isolation and integrity                                                 *)

\* C27: for two different rows x and y of registered_users, the scan of the
\* token printed for x is never reported for y and neither inserts a row of
\* log_records with y's user_id nor changes one.
C27_ScanIsolation ==
    \A x, y \in DOMAIN users :
        x # y =>
            LET r == process_qr_scan(TokenOf(x)) IN
            /\ Succeeded(r.outcome) => r.uid # y
            /\ \A l \in DOMAIN r.logs :
                  r.logs[l].user_id = y => (l \in DOMAIN logs /\ r.logs[l] = logs[l])

\* C28: with registrations, scans, deletions and resets executed one at a
\* time, the user_id of every row of log_records is the user_id of a row of
\* registered_users.
C28_ReferentialIntegrity ==
    \A l \in DOMAIN logs : logs[l].user_id \in DOMAIN users

\* the guest was deleted together with its visit, and the student's visit is
\* still in the ledger
C28_Witness ==
    /\ status.op = "delete"
    /\ status.uid = 2
    /\ 2 \notin DOMAIN users
    /\ 1 \in DOMAIN users
    /\ logs # <<>>

\* C29: when a registration has completed, no row of log_records carries the
\* user_id it was given, also when a deleted identity held that user_id
\* before and registered_users was reset in between.
C29_NewIdentityHasNoVisit ==
    (status.op = "register" /\ status.outcome = "ok" /\ status.uid \in DOMAIN users) =>
        \A l \in DOMAIN logs : logs[l].user_id # status.uid

\* the guest with user_id 2, who had a visit, was deleted; registered_users
\* was reset; the next registration was given user_id 2, and the ledger
\* holds the student's visit only
C29_Witness ==
    /\ status.op = "register"
    /\ status.outcome = "ok"
    /\ status.uid = 2
    /\ 2 \in DOMAIN users
    /\ DOMAIN logs = {1}
    /\ logs[1].user_id = 1
    /\ seq.log_records = 2

----------------------------------------------------------------------------
(* Separator inside a field                                                *)

HasSep(text) == \E k \in 1..Len(text) : text[k] = SEP

\* C30: when one of the four values handed to generate_qr_code holds "|",
\* the text it builds has more than 4 segments and parse_qr_data returns
\* None for it, not four fields; when none does, four fields come back.
C30_SeparatorInFieldFailsDecode ==
    (codec.stage = "parsed" /\ codec.fields # <<>>) =>
        IF \E k \in 1..4 : HasSep(codec.fields[k])
        THEN /\ Segments(codec.token) > 4
             /\ codec.parsed = None
        ELSE /\ Segments(codec.token) = 4
             /\ codec.parsed # None

\* a name holding the separator went through the codec and did not decode
C30_Witness ==
    /\ codec.stage = "parsed"
    /\ codec.fields # <<>>
    /\ codec.fields[1] = <<"|", " ">>
    /\ codec.fields[2] = <<"a">>
    /\ codec.fields[3] = <<>>
    /\ codec.fields[4] = <<"a">>
    /\ codec.parsed = None

====
